---------------------------- MODULE Spec2Model ----------------------------
(***************************************************************************)
(* Model of the dod-tools demo analysis: the fold of Analysis::from_bytes  *)
(* over the event stream (Initialization, engine and user messages,        *)
(* Finalization), with the eight update functions applied in the driver's  *)
(* order to one shared AnalyzerState.                                      *)
(*                                                                         *)
(* Durations are counted in milliseconds.  SvcTime carries whole seconds.  *)
(***************************************************************************)
EXTENDS Integers, Sequences, FiniteSets, TLC

VARIABLES
    pc,                    \* position of the driver: "init", "fold", "done", "panicked"
    clan_match_detection,  \* AnalyzerState.clan_match_detection
    current_time,          \* AnalyzerState.current_time (offset, ms)
    players,               \* AnalyzerState.players
    rounds,                \* AnalyzerState.rounds
    team_scores,           \* AnalyzerState.team_scores
    n_events,              \* number of events folded so far that changed the state
    killer_events,         \* history: per player id, DeathMsg events resolved to it as killer
    killer_events_live,    \* history: the same, counted since the last go-live
    directory,             \* event adapter: the entries read so far, each a sequence of frames
    events,                \* event adapter: the events the chain has yielded so far
    msg_name,              \* UserMessage::new: the message name
    msg_data,              \* UserMessage::new: the payload
    message,               \* UserMessage::new: the result, in a sequence once it is there
    global_id,             \* as_steam_id: the characters of the PlayerGlobalId
    steam_id,              \* as_steam_id: the result, in a sequence once it is there
    clock_time,            \* time.rs: AnalyzerState.current_time (real and viewdemo offset, ms)
    timing_events,         \* time.rs: history, the timing events folded so far
    mortality,             \* mortality.rs: per player id, Player.mortality
    mortality_pc,          \* mortality.rs: "fold", "done" after Finalization, "panicked"
    compare_left,          \* scoreboard sort: the left player handed to the comparator
    compare_right,         \* scoreboard sort: the right player
    compare_result         \* scoreboard sort: compare(left, right) and compare(right, left)

fold_vars == <<pc, clan_match_detection, current_time, players,
               rounds, team_scores, n_events, killer_events, killer_events_live>>
adapter_vars == <<directory, events>>
decoder_vars == <<msg_name, msg_data, message>>
steam_vars == <<global_id, steam_id>>

timing_vars == <<clock_time, timing_events>>
mortality_vars == <<mortality, mortality_pc>>
compare_vars == <<compare_left, compare_right, compare_result>>

vars == <<fold_vars, adapter_vars, decoder_vars, steam_vars, timing_vars, mortality_vars,
          compare_vars>>

-----------------------------------------------------------------------------
(* Bounds of the model *)

MaxEvents == 4
MaxUserInfoEvents == 5
MaxRoundEvents == 6
MaxKillEvents == 5
MaxStreakEvents == 6
MaxLiveEvents == 7
MaxScoreEvents == 5
MaxEntries == 2
MaxFrames == 2
MaxFrameMessages == 2
MaxTimingEvents == 4
MaxTeamEvents == 5
MaxMortalityEvents == 4
MaxMortalityChanges == 3

(* Program constants *)

MaxNormalDurationSecs == 10
U8Modulus == 256

-----------------------------------------------------------------------------
(* Values *)

Teams == {"Allies", "Axis", "Spectators"}
NoTeam == "None"
Weapons == {"Garand", "Kar"}
Classes == {"Rifleman"}
NoClass == "None"
NoStats == << >>

Slots == {0, 1}
WireIndices == {0, 1, 2}   \* 1-based on the wire; 0 is the suicide killer
SvcTimes == {0, 6, 18}
Scores == {0, 1}

RoundStates == {"Reset", "Normal", "AlliesWin", "AxisWin", "Draw"}

\* user_info blobs after trim_matches(['\0','\\']) and split("\\")
UserInfos ==
    { <<"">>,
      <<"*hltv", "1", "*sid", "S9", "name", "HLTV">>,
      <<"*sid", "S1", "name", "A", "team", "allies">>,
      <<"*sid", "S2", "name", "B", "team", "axis">>,
      <<"*sid", "S2", "name", "B", "team", "bogus">>,
      <<"name", "C", "team", "allies">> }

\* (id, user_info) of the SvcUpdateUserInfo messages
UserInfoMsgs == {7} \X UserInfos

from_secs(n) == n * 1000
from_secs_f32(t) == t * 1000

Connected(i) == [connected |-> TRUE, client_id |-> i]
Disconnected == [connected |-> FALSE]

WaitingForReset == [tag |-> "WaitingForReset"]
WaitingForNormal(t) == [tag |-> "WaitingForNormal", reset_time |-> t]
MatchIsLive == [tag |-> "MatchIsLive"]

Active(a, x, t) ==
    [kind |-> "Active", allies_kills |-> a, axis_kills |-> x, start_time |-> t]
Completed(s, e, w) ==
    [kind |-> "Completed", start_time |-> s, end_time |-> e, winner_stats |-> w]

Player_new(id) ==
    [id |-> id, connection_status |-> Disconnected, name |-> "", team |-> NoTeam,
     class |-> NoClass, stats |-> <<0, 0, 0>>, kill_streaks |-> << >>,
     weapon_breakdown |-> << >>]

AnalyzerState_default ==
    [clan_match_detection |-> WaitingForReset,
     current_time |-> 0,
     players |-> << >>,
     rounds |-> << >>,
     team_scores |-> [current_scores |-> << >>, timeline |-> << >>]]

-----------------------------------------------------------------------------
(* Formatting *)

HexDigits == <<"0", "1", "2", "3", "4", "5", "6", "7",
               "8", "9", "a", "b", "c", "d", "e", "f">>

HexByte(b) == HexDigits[(b \div 16) + 1] \o HexDigits[(b % 16) + 1]

\* u32::to_le_bytes
to_le_bytes(n) ==
    << n % 256, (n \div 256) % 256, (n \div 65536) % 256, (n \div 16777216) % 256 >>

RECURSIVE HexOf(_)
HexOf(bytes) ==
    IF bytes = << >> THEN "" ELSE HexByte(Head(bytes)) \o HexOf(Tail(bytes))

\* the values Uuid::new_v4() may return: fresh random ids, different on
\* every call
NewV4s == {"v4-a", "v4-b"}

\* three copies of the server id bytes only (twelve bytes)
uuid_seed_Short(server_id) ==
    LET b == to_le_bytes(server_id) IN b \o b \o b

\* uuid_seed: the little-endian bytes of the server id, four times over
uuid_seed(server_id) ==
    LET b == to_le_bytes(server_id) IN b \o b \o b \o b

\* Uuid::from_slice(seed).unwrap_or(Uuid::new_v4()).simple().to_string():
\* from_slice is Ok exactly for a slice of 16 bytes
UuidSimple(server_id, new_v4) ==
    LET seed == uuid_seed(server_id)
    IN  IF Len(seed) = 16 THEN HexOf(seed) ELSE new_v4

RECURSIVE ToDecimal(_)
ToDecimal(n) ==
    IF n < 10 THEN HexDigits[n + 1]
    ELSE ToDecimal(n \div 10) \o HexDigits[(n % 10) + 1]

\* impl TryFrom<&str> for Team, as an Option
Team_try_from(value) ==
    CASE value = "allies" -> "Allies"
      [] value = "axis" -> "Axis"
      [] value = "spectators" -> "Spectators"
      [] OTHER -> NoTeam

-----------------------------------------------------------------------------
(* Lookups *)

RECURSIVE FirstConnected(_, _, _)
FirstConnected(ps, client_index, i) ==
    IF i > Len(ps) THEN 0
    ELSE IF ps[i].connection_status.connected
            /\ ps[i].connection_status.client_id = client_index
         THEN i
         ELSE FirstConnected(ps, client_index, i + 1)

\* position in ps of the first player Connected{client_index}, 0 for None
\* mutant: the client index is taken as a position in the list, whatever the
\* connection status of the player there
find_player_by_client_index_ByPosition(ps, client_index) ==
    IF client_index + 1 \in 1..Len(ps) THEN client_index + 1 ELSE 0

find_player_by_client_index(ps, client_index) == FirstConnected(ps, client_index, 1)

RECURSIVE FirstWithId(_, _, _)
FirstWithId(ps, id, i) ==
    IF i > Len(ps) THEN 0
    ELSE IF ps[i].id = id THEN i ELSE FirstWithId(ps, id, i + 1)

\* position in ps of the first player with this id, 0 for None
find_player_by_id(ps, id) == FirstWithId(ps, id, 1)

\* u8 subtraction `client_index - 1`: panics on overflow when the build checks
\* arithmetic (s.overflow_checks), wraps otherwise
SubOneOverflows(s, client_index) == client_index = 0 /\ s.overflow_checks
SubOne(client_index) == (client_index + U8Modulus - 1) % U8Modulus

Panic(s) == [s EXCEPT !.panicked = TRUE]

-----------------------------------------------------------------------------
(* Update functions *)

use_timing_updates(s, e) ==
    IF e.type = "SvcTime" /\ e.time > 0
    THEN [s EXCEPT !.current_time = from_secs_f32(e.time)]
    ELSE s

RECURSIVE ParseFieldsFrom(_, _, _)
ParseFieldsFrom(tokens, i, map) ==
    IF i + 1 > Len(tokens) THEN map
    ELSE ParseFieldsFrom(tokens, i + 2,
             [k \in (DOMAIN map) \cup {tokens[i]} |->
                 IF k = tokens[i] THEN tokens[i + 1] ELSE map[k]])

\* chunks_exact(2) folded into a map; a trailing odd token is dropped
ParseFields(user_info) == ParseFieldsFrom(user_info, 1, << >>)

PlayerGlobalIdOf(fields, server_id, new_v4) ==
    IF "*sid" \in DOMAIN fields THEN fields["*sid"]
    ELSE UuidSimple(server_id, new_v4)

PlayerNameOf(fields, server_id) ==
    IF "name" \in DOMAIN fields THEN fields["name"]
    ELSE "Player " \o ToDecimal(server_id)

TeamOf(fields) ==
    IF "team" \in DOMAIN fields THEN Team_try_from(fields["team"]) ELSE NoTeam

\* mutant: a record is appended for every update
EnsurePlayer_AlwaysAppends(ps, id) == Append(ps, Player_new(id))

EnsurePlayer(ps, id) ==
    IF find_player_by_id(ps, id) = 0 THEN Append(ps, Player_new(id)) ELSE ps

\* mutant: the occupant of the slot is removed from the list
FlushSlot_RemovesOccupant(ps, index) ==
    LET occ == find_player_by_client_index(ps, index) IN
    IF occ # 0 THEN SubSeq(ps, 1, occ - 1) \o SubSeq(ps, occ + 1, Len(ps)) ELSE ps

\* mutant: the occupant of the slot is left connected
FlushSlot_KeepsOccupant(ps, index) == ps

\* mutant: the occupant of the slot is replaced by a fresh record of its id
FlushSlot_ForgetsOccupant(ps, index) ==
    LET occ == find_player_by_client_index(ps, index) IN
    IF occ # 0 THEN [ps EXCEPT ![occ] = Player_new(ps[occ].id)] ELSE ps

FlushSlot(ps, index) ==
    LET occ == find_player_by_client_index(ps, index) IN
    IF occ # 0 THEN [ps EXCEPT ![occ].connection_status = Disconnected] ELSE ps

AssignSlot(ps, id, index, name, team) ==
    LET me == find_player_by_id(ps, id) IN
    IF me # 0
    THEN [ps EXCEPT ![me] = [@ EXCEPT !.connection_status = Connected(index),
                                      !.name = name,
                                      !.team = team]]
    ELSE ps

\* mutant: an HLTV client is connected like any other client
use_player_updates_ConnectsHltv(s, e) ==
    IF e.type # "SvcUpdateUserInfo" THEN s
    ELSE
    LET fields == ParseFields(e.user_info)
        inslot == find_player_by_client_index(s.players, e.index)
    IN  IF DOMAIN fields = {} /\ inslot # 0
        THEN [s EXCEPT !.players[inslot].connection_status = Disconnected]
        ELSE
        LET id == PlayerGlobalIdOf(fields, e.id, s.new_v4)
            player_name == PlayerNameOf(fields, e.id)
            ps1 == EnsurePlayer(s.players, id)
            ps2 == FlushSlot(ps1, e.index)
        IN  [s EXCEPT !.players = AssignSlot(ps2, id, e.index, player_name, TeamOf(fields))]

use_player_updates(s, e) ==
    IF e.type # "SvcUpdateUserInfo" THEN s
    ELSE
    LET fields == ParseFields(e.user_info)
        inslot == find_player_by_client_index(s.players, e.index)
    IN  IF DOMAIN fields = {} /\ inslot # 0
        THEN [s EXCEPT !.players[inslot].connection_status = Disconnected]
        ELSE IF "*hltv" \in DOMAIN fields /\ fields["*hltv"] = "1"
        THEN s
        ELSE
        LET id == PlayerGlobalIdOf(fields, e.id, s.new_v4)
            player_name == PlayerNameOf(fields, e.id)
            ps1 == EnsurePlayer(s.players, id)
            ps2 == FlushSlot(ps1, e.index)
        IN  [s EXCEPT !.players = AssignSlot(ps2, id, e.index, player_name, TeamOf(fields))]

ScoreboardTypes == {"PClass", "PTeam", "ScoreShort", "ObjScore", "Frags"}

\* mutant: ObjScore and Frags replace the whole stats triple
use_scoreboard_updates_WholeTriple(s, e) ==
    IF e.type \notin ScoreboardTypes THEN s
    ELSE IF SubOneOverflows(s, e.client_index) THEN Panic(s)
    ELSE
    LET p == find_player_by_client_index(s.players, SubOne(e.client_index)) IN
    IF p = 0 THEN s
    ELSE CASE e.type = "PClass" -> [s EXCEPT !.players[p].class = e.class]
           [] e.type = "PTeam" -> [s EXCEPT !.players[p].team = e.team]
           [] e.type = "ScoreShort" ->
                [s EXCEPT !.players[p].stats = <<e.score, e.kills, e.deaths>>]
           [] e.type = "ObjScore" -> [s EXCEPT !.players[p].stats = <<e.score, 0, 0>>]
           [] e.type = "Frags" -> [s EXCEPT !.players[p].stats = <<0, e.frags, 0>>]

use_scoreboard_updates(s, e) ==
    IF e.type \notin ScoreboardTypes THEN s
    ELSE IF SubOneOverflows(s, e.client_index) THEN Panic(s)
    ELSE
    LET p == find_player_by_client_index(s.players, SubOne(e.client_index)) IN
    IF p = 0 THEN s
    ELSE CASE e.type = "PClass" -> [s EXCEPT !.players[p].class = e.class]
           [] e.type = "PTeam" -> [s EXCEPT !.players[p].team = e.team]
           [] e.type = "ScoreShort" ->
                [s EXCEPT !.players[p].stats = <<e.score, e.kills, e.deaths>>]
           [] e.type = "ObjScore" -> [s EXCEPT !.players[p].stats[1] = e.score]
           [] e.type = "Frags" -> [s EXCEPT !.players[p].stats[2] = e.frags]

\* is_teamkill as computed by the kill-streak and weapon-breakdown updates
SameTeam(ps, k, v) == k # 0 /\ v # 0 /\ ps[k].team = ps[v].team

\* mutant: the current streak is emptied instead of a new one being appended
PushStreak_EmptiesCurrent(p) ==
    IF p.kill_streaks = << >> THEN [p EXCEPT !.kill_streaks = << << >> >>]
    ELSE [p EXCEPT !.kill_streaks[Len(p.kill_streaks)] = << >>]

PushStreak(p) == [p EXCEPT !.kill_streaks = Append(@, << >>)]

ExtendStreak(p, time, weapon) ==
    LET ks == IF p.kill_streaks = << >> THEN << << >> >> ELSE p.kill_streaks
    IN  [p EXCEPT !.kill_streaks = [ks EXCEPT ![Len(ks)] = Append(@, <<time, weapon>>)]]

use_kill_streak_updates(s, e) ==
    IF e.type = "DeathMsg"
    THEN
        IF SubOneOverflows(s, e.killer_client_index)
           \/ SubOneOverflows(s, e.victim_client_index)
        THEN Panic(s)
        ELSE
        LET killer == find_player_by_client_index(s.players, SubOne(e.killer_client_index))
            victim == find_player_by_client_index(s.players, SubOne(e.victim_client_index))
            is_teamkill == SameTeam(s.players, killer, victim)
            ps1 == IF victim # 0
                   THEN [s.players EXCEPT ![victim] = PushStreak(@)]
                   ELSE s.players
        IN  IF is_teamkill THEN [s EXCEPT !.players = ps1]
            ELSE IF killer # 0
            THEN [s EXCEPT !.players =
                     [ps1 EXCEPT ![killer] = ExtendStreak(@, s.current_time, e.weapon)]]
            ELSE [s EXCEPT !.players = ps1]
    ELSE IF e.type = "RoundState" /\ e.round_state = "Reset"
    THEN [s EXCEPT !.players = [i \in 1..Len(s.players) |-> PushStreak(s.players[i])]]
    ELSE s

\* mutant: a teamkill is not recorded
CountKill_SkipsTeamkill(wb, weapon, is_teamkill) ==
    LET old == IF weapon \in DOMAIN wb THEN wb[weapon] ELSE <<0, 0>>
        new == IF is_teamkill THEN old ELSE <<old[1] + 1, old[2]>>
    IN  [w \in (DOMAIN wb) \cup {weapon} |-> IF w = weapon THEN new ELSE wb[w]]

\* mutant: a teamkill is counted as a kill
CountKill_TeamkillAsKill(wb, weapon, is_teamkill) ==
    LET old == IF weapon \in DOMAIN wb THEN wb[weapon] ELSE <<0, 0>>
        new == <<old[1] + 1, old[2]>>
    IN  [w \in (DOMAIN wb) \cup {weapon} |-> IF w = weapon THEN new ELSE wb[w]]

\* weapon_breakdown.entry(weapon).or_insert((0, 0)), then one component incremented
CountKill(wb, weapon, is_teamkill) ==
    LET old == IF weapon \in DOMAIN wb THEN wb[weapon] ELSE <<0, 0>>
        new == IF is_teamkill THEN <<old[1], old[2] + 1>> ELSE <<old[1] + 1, old[2]>>
    IN  [w \in (DOMAIN wb) \cup {weapon} |-> IF w = weapon THEN new ELSE wb[w]]

use_weapon_breakdown_updates(s, e) ==
    IF e.type # "DeathMsg" THEN s
    ELSE IF SubOneOverflows(s, e.killer_client_index)
            \/ SubOneOverflows(s, e.victim_client_index)
    THEN Panic(s)
    ELSE
    LET killer == find_player_by_client_index(s.players, SubOne(e.killer_client_index))
        victim == find_player_by_client_index(s.players, SubOne(e.victim_client_index))
        is_teamkill == SameTeam(s.players, killer, victim)
    IN  IF killer # 0
        THEN [s EXCEPT !.players[killer].weapon_breakdown =
                 CountKill(@, e.weapon, is_teamkill)]
        ELSE s

RECURSIVE RFindTeam(_, _, _)
RFindTeam(timeline, team, i) ==
    IF i = 0 THEN 0
    ELSE IF timeline[i][2] = team THEN i ELSE RFindTeam(timeline, team, i - 1)

RECURSIVE FindTeam(_, _, _)
FindTeam(timeline, team, i) ==
    IF i > Len(timeline) THEN 0
    ELSE IF timeline[i][2] = team THEN i ELSE FindTeam(timeline, team, i + 1)

\* mutant: find instead of rfind
get_team_score_First(ts, team) ==
    LET i == FindTeam(ts.timeline, team, 1) IN
    IF i = 0 THEN 0 ELSE ts.timeline[i][3]

\* timeline.iter().rfind(team).map(points).unwrap_or(0)
get_team_score(ts, team) ==
    LET i == RFindTeam(ts.timeline, team, Len(ts.timeline)) IN
    IF i = 0 THEN 0 ELSE ts.timeline[i][3]

add_team_score(ts, game_time, team, points) ==
    [ts EXCEPT !.timeline = Append(@, <<game_time, team, points>>)]

use_team_score_updates(s, e) ==
    IF e.type = "TeamScore"
    THEN [s EXCEPT !.team_scores = add_team_score(@, s.current_time, e.team, e.score)]
    ELSE s

Last(seq) == seq[Len(seq)]
Front(seq) == SubSeq(seq, 1, Len(seq) - 1)

\* mutant: a win without an active round records a round of its own
CompleteWonRound_Fabricates(s, round_state) ==
    LET active_round == IF s.rounds # << >> /\ Last(s.rounds).kind = "Active"
                        THEN Last(s.rounds)
                        ELSE Active(0, 0, s.current_time)
        kept == IF s.rounds # << >> /\ Last(s.rounds).kind = "Active"
                THEN Front(s.rounds)
                ELSE s.rounds
        winner_stats == IF round_state = "AlliesWin"
                        THEN <<"Allies", active_round.allies_kills>>
                        ELSE <<"Axis", active_round.axis_kills>>
    IN  [s EXCEPT !.rounds = Append(kept,
            Completed(active_round.start_time, s.current_time, winner_stats))]

\* mutant: the winner is given the kills of the other team
CompleteWonRound_OtherTeamKills(s, round_state) ==
    IF s.rounds = << >> THEN Panic(s)
    ELSE
    LET active_round == Last(s.rounds) IN
    IF active_round.kind = "Active"
    THEN LET winner_stats == IF round_state = "AlliesWin"
                             THEN <<"Allies", active_round.axis_kills>>
                             ELSE <<"Axis", active_round.allies_kills>>
         IN  [s EXCEPT !.rounds = Append(Front(s.rounds),
                 Completed(active_round.start_time, s.current_time, winner_stats))]
    ELSE Panic(s)

\* RoundState::AlliesWin | RoundState::AxisWin: pop the tail, which must be Active
CompleteWonRound(s, round_state) ==
    IF s.rounds = << >> THEN Panic(s)
    ELSE
    LET active_round == Last(s.rounds) IN
    IF active_round.kind = "Active"
    THEN LET winner_stats == IF round_state = "AlliesWin"
                             THEN <<"Allies", active_round.allies_kills>>
                             ELSE <<"Axis", active_round.axis_kills>>
         IN  [s EXCEPT !.rounds = Append(Front(s.rounds),
                 Completed(active_round.start_time, s.current_time, winner_stats))]
    ELSE Panic(s)

\* Finalization: rounds.pop(), and a Completed round pushed only for an Active tail
FinalizeRounds(s) ==
    IF s.rounds = << >> THEN s
    ELSE
    LET popped == Last(s.rounds) IN
    IF popped.kind = "Active"
    THEN [s EXCEPT !.rounds = Append(Front(s.rounds),
             Completed(popped.start_time, s.current_time, NoStats))]
    ELSE [s EXCEPT !.rounds = Front(s.rounds)]

\* mutant: a kill within one team is counted for the team
CountRoundKill_CountsTeamkill(s, killer, victim) ==
    IF s.rounds # << >> /\ Last(s.rounds).kind = "Active" /\ killer # 0 /\ victim # 0
    THEN
        IF s.players[killer].team = "Allies"
        THEN [s EXCEPT !.rounds[Len(s.rounds)].allies_kills = @ + 1]
        ELSE [s EXCEPT !.rounds[Len(s.rounds)].axis_kills = @ + 1]
    ELSE s

CountRoundKill(s, killer, victim) ==
    IF s.rounds # << >> /\ Last(s.rounds).kind = "Active" /\ killer # 0 /\ victim # 0
    THEN
        LET team == s.players[killer].team
            is_teamkill == team # NoTeam /\ team = s.players[victim].team
        IN  IF is_teamkill THEN s
            ELSE IF team = "Allies"
            THEN [s EXCEPT !.rounds[Len(s.rounds)].allies_kills = @ + 1]
            ELSE [s EXCEPT !.rounds[Len(s.rounds)].axis_kills = @ + 1]
    ELSE s

use_rounds_updates(s, e) ==
    CASE e.type = "Initialization" ->
            IF s.rounds = << >>
            THEN [s EXCEPT !.rounds = Append(@, Active(0, 0, s.current_time))]
            ELSE s
      [] e.type = "Finalization" -> FinalizeRounds(s)
      [] e.type = "RoundState" /\ e.round_state = "Reset" ->
            [s EXCEPT !.rounds = Append(@, Active(0, 0, s.current_time))]
      [] e.type = "RoundState" /\ e.round_state \in {"AlliesWin", "AxisWin"} ->
            CompleteWonRound(s, e.round_state)
      [] e.type = "DeathMsg" ->
            IF SubOneOverflows(s, e.killer_client_index)
               \/ SubOneOverflows(s, e.victim_client_index)
            THEN Panic(s)
            ELSE CountRoundKill(s,
                     find_player_by_client_index(s.players, SubOne(e.killer_client_index)),
                     find_player_by_client_index(s.players, SubOne(e.victim_client_index)))
      [] OTHER -> s

TeamScores_reset(ts) == [current_scores |-> << >>, timeline |-> << >>]

\* the scores heuristic of the (WaitingForNormal, Normal) arm
ScorelessWorld(s) ==
    /\ \A i \in DOMAIN s.players : s.players[i].stats[1] = 0
    /\ \A t \in DOMAIN s.team_scores.current_scores :
           s.team_scores.current_scores[t] = 0

ClearPlayer(p) == [p EXCEPT !.kill_streaks = << >>, !.weapon_breakdown = << >>]

\* mutant: the live round starts at the time of the Normal, and the team-score
\* timeline is kept
GoLive_StartsAtNormal(s, reset_time) ==
    [s EXCEPT !.rounds = << Active(0, 0, s.current_time) >>,
              !.players = [i \in 1..Len(s.players) |-> ClearPlayer(s.players[i])],
              !.clan_match_detection = MatchIsLive]

GoLive(s, reset_time) ==
    [s EXCEPT !.rounds = << Active(0, 0, reset_time) >>,
              !.team_scores = TeamScores_reset(@),
              !.players = [i \in 1..Len(s.players) |-> ClearPlayer(s.players[i])],
              !.clan_match_detection = MatchIsLive]

\* mutant: a Reset is never given up
NormalThreshold_NeverExpires(max_normal_duration_from_reset, s) == s

\* the trailing arm: any event other than ClanTimer and RoundState
NormalThreshold(max_normal_duration_from_reset, s) ==
    IF s.clan_match_detection.tag = "WaitingForNormal"
    THEN IF s.current_time < s.clan_match_detection.reset_time
         THEN Panic(s)   \* Duration subtraction overflows
         ELSE IF s.current_time - s.clan_match_detection.reset_time
                    > max_normal_duration_from_reset
         THEN [s EXCEPT !.clan_match_detection = WaitingForReset]
         ELSE s
    ELSE s

\* mutant: the restart timer also clears the rounds and the players
use_clan_match_detection_updates_TimerClears(max_normal_duration_from_reset, s, e) ==
    IF e.type = "ClanTimer"
    THEN IF s.clan_match_detection.tag = "MatchIsLive"
         THEN [GoLive(s, s.current_time) EXCEPT !.clan_match_detection = WaitingForReset]
         ELSE s
    ELSE IF e.type = "RoundState"
    THEN CASE s.clan_match_detection.tag = "WaitingForReset" /\ e.round_state = "Reset" ->
                [s EXCEPT !.clan_match_detection = WaitingForNormal(s.current_time)]
           [] s.clan_match_detection.tag = "WaitingForNormal" /\ e.round_state = "Normal" ->
                IF ScorelessWorld(s)
                THEN GoLive(s, s.clan_match_detection.reset_time)
                ELSE s
           [] OTHER -> s
    ELSE NormalThreshold(max_normal_duration_from_reset, s)

\* mutant: a Normal goes live without a Reset before it
use_clan_match_detection_updates_LiveOnNormal(max_normal_duration_from_reset, s, e) ==
    IF e.type = "RoundState" /\ e.round_state = "Normal"
    THEN IF ScorelessWorld(s) THEN GoLive(s, s.current_time) ELSE s
    ELSE s

\* mutant: a Reset during a live match rearms the detector
use_clan_match_detection_updates_ResetRearms(max_normal_duration_from_reset, s, e) ==
    IF e.type = "ClanTimer"
    THEN IF s.clan_match_detection.tag = "MatchIsLive"
         THEN [s EXCEPT !.clan_match_detection = WaitingForReset]
         ELSE s
    ELSE IF e.type = "RoundState"
    THEN CASE s.clan_match_detection.tag \in {"WaitingForReset", "MatchIsLive"}
                  /\ e.round_state = "Reset" ->
                [s EXCEPT !.clan_match_detection = WaitingForNormal(s.current_time)]
           [] s.clan_match_detection.tag = "WaitingForNormal" /\ e.round_state = "Normal" ->
                IF ScorelessWorld(s)
                THEN GoLive(s, s.clan_match_detection.reset_time)
                ELSE s
           [] OTHER -> s
    ELSE NormalThreshold(max_normal_duration_from_reset, s)

use_clan_match_detection_updates(max_normal_duration_from_reset, s, e) ==
    IF e.type = "ClanTimer"
    THEN IF s.clan_match_detection.tag = "MatchIsLive"
         THEN [s EXCEPT !.clan_match_detection = WaitingForReset]
         ELSE s
    ELSE IF e.type = "RoundState"
    THEN CASE s.clan_match_detection.tag = "WaitingForReset" /\ e.round_state = "Reset" ->
                [s EXCEPT !.clan_match_detection = WaitingForNormal(s.current_time)]
           [] s.clan_match_detection.tag = "WaitingForNormal" /\ e.round_state = "Normal" ->
                IF ScorelessWorld(s)
                THEN GoLive(s, s.clan_match_detection.reset_time)
                ELSE s
           [] OTHER -> s
    ELSE NormalThreshold(max_normal_duration_from_reset, s)

-----------------------------------------------------------------------------
(* Driver *)

ClanStep(s, e) ==
    use_clan_match_detection_updates(from_secs(MaxNormalDurationSecs), s, e)

\* the k-th call of the fold closure of Analysis::from_bytes; once an update has
\* panicked no later one runs
Update(k, s, e) ==
    IF s.panicked THEN s
    ELSE CASE k = 1 -> use_timing_updates(s, e)
           [] k = 2 -> use_player_updates(s, e)
           [] k = 3 -> use_scoreboard_updates(s, e)
           [] k = 4 -> use_kill_streak_updates(s, e)
           [] k = 5 -> use_weapon_breakdown_updates(s, e)
           [] k = 6 -> use_team_score_updates(s, e)
           [] k = 7 -> use_rounds_updates(s, e)
           [] k = 8 -> ClanStep(s, e)

\* the first seven calls of the fold closure
UpdatesBeforeClan(s, e) ==
    Update(7, Update(6, Update(5, Update(4, Update(3, Update(2, Update(1, s, e),
        e), e), e), e), e), e)

\* the body of the fold closure of Analysis::from_bytes
FoldStep(s, e) == Update(8, UpdatesBeforeClan(s, e), e)

\* the AnalyzerState held by the fold, with the facts about the run that
\* the update functions depend on: whether the build checks arithmetic
\* overflow, and whether an update has panicked
StateWith(checks, new_v4) ==
    [clan_match_detection |-> clan_match_detection,
     current_time |-> current_time,
     players |-> players,
     rounds |-> rounds,
     team_scores |-> team_scores,
     overflow_checks |-> checks,
     new_v4 |-> new_v4,
     panicked |-> FALSE]

\* the same, for the uses where the value of Uuid::new_v4() is of no interest
State(checks) == StateWith(checks, "v4-a")

\* the client indices an event carries
ClientIndices(e) ==
    IF e.type = "DeathMsg" THEN {e.killer_client_index, e.victim_client_index}
    ELSE IF e.type \in ScoreboardTypes THEN {e.client_index}
    ELSE {}

\* the builds that differ on the event: debug and release when it carries a
\* zero client index, otherwise they agree
Builds(e) == IF 0 \in ClientIndices(e) THEN BOOLEAN ELSE {FALSE}

Get(f, k) == IF k \in DOMAIN f THEN f[k] ELSE 0
Bump(f, k) == [x \in (DOMAIN f) \cup {k} |-> IF x = k THEN Get(f, k) + 1 ELSE f[x]]

\* the id of the player a DeathMsg resolves as killer, "" when none
KillerId(e) ==
    LET k == find_player_by_client_index(players, SubOne(e.killer_client_index)) IN
    IF e.type = "DeathMsg" /\ k # 0 THEN players[k].id ELSE ""

WentLive(s) ==
    s.clan_match_detection.tag = "MatchIsLive" /\ clan_match_detection.tag # "MatchIsLive"

\* whether the fold step left a state other than the one it started from
Changes(s) ==
    \/ s.clan_match_detection # clan_match_detection
    \/ s.current_time # current_time
    \/ s.players # players
    \/ s.rounds # rounds
    \/ s.team_scores # team_scores

\* Ordering of i32 values
cmp(a, b) == IF a < b THEN "Less" ELSE IF a > b THEN "Greater" ELSE "Equal"

reverse(o) == IF o = "Less" THEN "Greater" ELSE IF o = "Greater" THEN "Less" ELSE o

then(o, next) == IF o = "Equal" THEN next ELSE o

\* the comparator of the sort that the scoreboard update of scoreboard.rs runs on
\* Finalization
ComparePlayers(left, right) ==
    IF left.team # NoTeam /\ left.team = right.team
    THEN then(then(reverse(cmp(left.stats[1], right.stats[1])),
                   reverse(cmp(left.stats[2], right.stats[2]))),
              cmp(left.stats[3], right.stats[3]))
    ELSE IF left.team = "Allies" THEN "Less"
    ELSE IF left.team = "Axis" /\ right.team = "Spectators" THEN "Less"
    ELSE IF left.team = "Spectators" \/ left.team = NoTeam THEN "Greater"
    ELSE "Equal"

\* whether the comparator is a total order on the elements of ps (a sort never
\* compares an element with itself)
IsTotalOrderOn(ps) ==
    /\ \A i, j \in 1..Len(ps) :
           i # j => ComparePlayers(ps[i], ps[j]) = reverse(ComparePlayers(ps[j], ps[i]))
    /\ \A i, j, k \in 1..Len(ps) :
           (i # j /\ j # k /\ i # k
            /\ ComparePlayers(ps[i], ps[j]) # "Greater"
            /\ ComparePlayers(ps[j], ps[k]) # "Greater")
               => ComparePlayers(ps[i], ps[k]) # "Greater"

PermutationsOf(n) ==
    {f \in [1..n -> 1..n] : \A i, j \in 1..n : f[i] = f[j] => i = j}

\* f lists the positions of ps in sorted order, equal elements in their old order
IsStableSorted(ps, f) ==
    \A i, j \in 1..Len(ps) :
        i < j => LET o == ComparePlayers(ps[f[i]], ps[f[j]]) IN
                 o = "Less" \/ (o = "Equal" /\ f[i] < f[j])

\* the lists slice::sort_by may leave: the stable sort when the comparator is a
\* total order on ps, any order when it is not
sort_by(ps) ==
    {[i \in 1..Len(ps) |-> ps[f[i]]] :
        f \in {g \in PermutationsOf(Len(ps)) : ~IsTotalOrderOn(ps) \/ IsStableSorted(ps, g)}}

\* the values Uuid::new_v4() may take while the event is processed: it is
\* called only in use_player_updates, for a SvcUpdateUserInfo
Randoms(e) == IF e.type = "SvcUpdateUserInfo" THEN NewV4s ELSE {"v4-a"}

\* the states the fold step may end in: on Finalization the scoreboard update
\* of scoreboard.rs sorts the players (and sort_by may panic on a comparator
\* that is no total order), the one of lib.rs leaves them as they are
Outcomes(s, e) ==
    IF e.type = "Finalization" /\ ~s.panicked
    THEN {s} \cup {[s EXCEPT !.players = ps] : ps \in sort_by(s.players)}
             \cup (IF IsTotalOrderOn(s.players) THEN {} ELSE {Panic(s)})
    ELSE {s}

Process(e, next_pc) ==
    /\ UNCHANGED <<adapter_vars, decoder_vars, steam_vars, timing_vars, mortality_vars, compare_vars>>
    /\ \E checks \in Builds(e) :
           \E new_v4 \in Randoms(e) :
           \E s \in Outcomes(FoldStep(StateWith(checks, new_v4), e), e) :
           IF s.panicked
           THEN /\ pc' = "panicked"
                /\ UNCHANGED <<clan_match_detection, current_time, players, rounds,
                               team_scores, n_events, killer_events, killer_events_live>>
           ELSE /\ pc' = next_pc
                /\ clan_match_detection' = s.clan_match_detection
                /\ current_time' = s.current_time
                /\ players' = s.players
                /\ rounds' = s.rounds
                /\ team_scores' = s.team_scores
                /\ n_events' = IF Changes(s) THEN n_events + 1 ELSE n_events
                /\ killer_events' =
                       IF KillerId(e) # "" THEN Bump(killer_events, KillerId(e)) ELSE killer_events
                /\ killer_events_live' =
                       IF WentLive(s) THEN << >>
                       ELSE IF KillerId(e) # "" THEN Bump(killer_events_live, KillerId(e))
                       ELSE killer_events_live

-----------------------------------------------------------------------------
(* Events *)

SvcTimeEvents == {[type |-> "SvcTime", time |-> t] : t \in SvcTimes}

SvcUpdateUserInfoEvents ==
    {[type |-> "SvcUpdateUserInfo", index |-> i, id |-> m[1], user_info |-> m[2]] :
        i \in Slots, m \in UserInfoMsgs}

PClassEvents ==
    {[type |-> "PClass", client_index |-> c, class |-> k] :
        c \in WireIndices, k \in Classes}

PTeamEvents ==
    {[type |-> "PTeam", client_index |-> c, team |-> t] : c \in WireIndices, t \in Teams}

ScoreShortEvents ==
    {[type |-> "ScoreShort", client_index |-> c, score |-> sc, kills |-> k, deaths |-> d] :
        c \in WireIndices, sc \in Scores, k \in Scores, d \in Scores}

ObjScoreEvents ==
    {[type |-> "ObjScore", client_index |-> c, score |-> sc] :
        c \in WireIndices, sc \in Scores}

FragsEvents ==
    {[type |-> "Frags", client_index |-> c, frags |-> f] : c \in WireIndices, f \in Scores}

DeathMsgEvents ==
    {[type |-> "DeathMsg", killer_client_index |-> k, victim_client_index |-> v,
      weapon |-> w] : k \in WireIndices, v \in WireIndices, w \in Weapons}

TeamScoreEvents ==
    {[type |-> "TeamScore", team |-> t, score |-> sc] : t \in Teams, sc \in Scores}

RoundStateEvents == {[type |-> "RoundState", round_state |-> r] : r \in RoundStates}

ResetEvent == [type |-> "RoundState", round_state |-> "Reset"]

WinEvents ==
    {[type |-> "RoundState", round_state |-> r] : r \in {"AlliesWin", "AxisWin"}}

ClanTimerEvent == [type |-> "ClanTimer"]

\* any other decoded message: no update function matches it but the threshold arm
OtherEvent == [type |-> "Other"]

Events ==
    SvcTimeEvents \cup SvcUpdateUserInfoEvents \cup PClassEvents \cup PTeamEvents
    \cup ScoreShortEvents \cup ObjScoreEvents \cup FragsEvents \cup DeathMsgEvents
    \cup TeamScoreEvents \cup RoundStateEvents \cup {ClanTimerEvent, OtherEvent}

\* Events of a two-team match: A (Allies) in slot 0; B (Axis) or C (Allies) or
\* nobody in slot 1; kills among them and by the world; one score per team
MatchConnectEvents ==
    {e \in SvcUpdateUserInfoEvents :
        \/ e.index = 0 /\ e.user_info = <<"*sid", "S1", "name", "A", "team", "allies">>
        \/ e.index = 1 /\ e.user_info \in
               { <<"*sid", "S2", "name", "B", "team", "axis">>,
                 <<"name", "C", "team", "allies">>,
                 <<"">> }}

MatchDeathEvents == {e \in DeathMsgEvents : e.victim_client_index # 0}

MatchClockEvents == {e \in SvcTimeEvents : e.time > 0}

MatchScoreEvents == {e \in TeamScoreEvents : e.team = "Allies" /\ e.score > 0}

MatchRoundEvents == {e \in RoundStateEvents : e.round_state # "Draw"}

\* Events of a live match between A (Allies, slot 0) and B (Axis, slot 1)
LiveConnectEvents ==
    {e \in MatchConnectEvents : "*sid" \in DOMAIN ParseFields(e.user_info)}

LiveDeathEvents ==
    {e \in MatchDeathEvents : e.killer_client_index # 0 /\ e.weapon = "Garand"}

\* Events of kills among players with and without a team: A in slot 0 (Allies
\* or no team field); B (Axis or no team field), C (Allies) or nobody in
\* slot 1; D (Axis) in the last slot a u8 can name; kills among them and by
\* the world, with one weapon
TeamConnectEvents ==
    {[type |-> "SvcUpdateUserInfo", index |-> 0, id |-> 7, user_info |-> u] :
        u \in { <<"*sid", "S1", "name", "A", "team", "allies">>,
                 <<"*sid", "S1", "name", "A">> }}
    \cup {[type |-> "SvcUpdateUserInfo", index |-> 1, id |-> 7, user_info |-> u] :
        u \in { <<"*sid", "S2", "name", "B", "team", "axis">>,
                 <<"*sid", "S2", "name", "B">>,
                 <<"name", "C", "team", "allies">>,
                 <<"">> }}
    \cup {[type |-> "SvcUpdateUserInfo", index |-> U8Modulus - 1, id |-> 7,
            user_info |-> <<"*sid", "S3", "name", "D", "team", "axis">>]}

TeamDeathEvents ==
    {e \in DeathMsgEvents : e.victim_client_index # 0 /\ e.weapon = "Garand"}

-----------------------------------------------------------------------------
(* Actions: one per event kind *)

Folding == pc = "fold"

Initialization == pc = "init" /\ Process([type |-> "Initialization"], "fold")

Finalization == pc = "fold" /\ Process([type |-> "Finalization"], "done")

SvcTime == Folding /\ \E e \in SvcTimeEvents : Process(e, "fold")

SvcUpdateUserInfo == Folding /\ \E e \in SvcUpdateUserInfoEvents : Process(e, "fold")

PClass == Folding /\ \E e \in PClassEvents : Process(e, "fold")

PTeam == Folding /\ \E e \in PTeamEvents : Process(e, "fold")

ScoreShort == Folding /\ \E e \in ScoreShortEvents : Process(e, "fold")

ObjScore == Folding /\ \E e \in ObjScoreEvents : Process(e, "fold")

Frags == Folding /\ \E e \in FragsEvents : Process(e, "fold")

DeathMsg == Folding /\ \E e \in DeathMsgEvents : Process(e, "fold")

TeamScore == Folding /\ \E e \in TeamScoreEvents : Process(e, "fold")

RoundStateMsg == Folding /\ \E e \in RoundStateEvents : Process(e, "fold")

RoundStateNoReset ==
    Folding /\ \E e \in RoundStateEvents \ {ResetEvent} : Process(e, "fold")

ClanTimer == Folding /\ Process(ClanTimerEvent, "fold")

OtherMessage == Folding /\ Process(OtherEvent, "fold")

MatchConnect == Folding /\ \E e \in MatchConnectEvents : Process(e, "fold")

MatchDeath == Folding /\ \E e \in MatchDeathEvents : Process(e, "fold")

MatchClock == Folding /\ \E e \in MatchClockEvents : Process(e, "fold")

MatchScore == Folding /\ \E e \in MatchScoreEvents : Process(e, "fold")

MatchRound == Folding /\ \E e \in MatchRoundEvents : Process(e, "fold")

LiveConnect == Folding /\ \E e \in LiveConnectEvents : Process(e, "fold")

LiveDeath == Folding /\ \E e \in LiveDeathEvents : Process(e, "fold")

TeamConnect == Folding /\ \E e \in TeamConnectEvents : Process(e, "fold")

TeamDeath == Folding /\ \E e \in TeamDeathEvents : Process(e, "fold")

-----------------------------------------------------------------------------
(* Decoding of user messages (dod/src/lib.rs) *)

\* a parser result: the rest of the input and the value, or an error
ParseOk(rest, value) == [ok |-> TRUE, rest |-> rest, value |-> value]
ParseErr == [ok |-> FALSE]

le_u8(i) == IF Len(i) >= 1 THEN ParseOk(Tail(i), Head(i)) ELSE ParseErr

le_u16(i) ==
    IF Len(i) >= 2 THEN ParseOk(SubSeq(i, 3, Len(i)), i[1] + 256 * i[2]) ELSE ParseErr

le_i16(i) ==
    IF Len(i) >= 2
    THEN LET u == i[1] + 256 * i[2]
         IN  ParseOk(SubSeq(i, 3, Len(i)), IF u >= 32768 THEN u - 65536 ELSE u)
    ELSE ParseErr

\* le_u8.map_res(..): the byte has to be a discriminant of the enum
team_parser(i) ==
    IF Len(i) >= 1 /\ Head(i) \in {1, 2, 3}
    THEN ParseOk(Tail(i), CASE Head(i) = 1 -> "Allies"
                            [] Head(i) = 2 -> "Axis"
                            [] Head(i) = 3 -> "Spectators")
    ELSE ParseErr

\* the Class is named by its discriminant
class_parser(i) ==
    IF Len(i) >= 1 /\ Head(i) \in 1..27 THEN ParseOk(Tail(i), Head(i)) ELSE ParseErr

\* the Weapon is named by its discriminant
weapon_parser(i) ==
    IF Len(i) >= 1
       /\ Head(i) \in (1..14) \cup (17..32) \cup (35..40) \cup {42, 43}
    THEN ParseOk(Tail(i), Head(i))
    ELSE ParseErr

\* position of the first NUL byte of i, 0 if there is none
RECURSIVE FindNul(_, _)
FindNul(i, k) ==
    IF k > Len(i) THEN 0 ELSE IF i[k] = 0 THEN k ELSE FindNul(i, k + 1)

\* the bytes up to the first NUL, which is consumed (the bytes of the inputs
\* are ASCII, so String::from_utf8 succeeds)
null_string(i) ==
    LET k == FindNul(i, 1)
    IN  IF k = 0 THEN ParseErr
        ELSE ParseOk(SubSeq(i, k + 1, Len(i)), SubSeq(i, 1, k - 1))

eof(i) == IF i = << >> THEN ParseOk(i, << >>) ELSE ParseErr

\* the parsers that are members of tuples
Field(parser, i) ==
    CASE parser = "le_u8" -> le_u8(i)
      [] parser = "le_u16" -> le_u16(i)
      [] parser = "le_i16" -> le_i16(i)
      [] parser = "team" -> team_parser(i)
      [] parser = "class" -> class_parser(i)
      [] parser = "weapon" -> weapon_parser(i)
      [] parser = "null_string" -> null_string(i)

\* a tuple of parsers: each one runs on the rest of the one before
RECURSIVE tuple(_, _, _)
tuple(parsers, i, values) ==
    IF parsers = << >> THEN ParseOk(i, values)
    ELSE LET r == Field(Head(parsers), i)
         IN  IF r.ok THEN tuple(Tail(parsers), r.rest, Append(values, r.value))
             ELSE ParseErr

\* all_consuming: input left over is an error
all_consuming(r) == IF r.ok /\ r.rest # << >> THEN ParseErr ELSE r

\* Parser::map
map(r, value) == IF r.ok THEN ParseOk(r.rest, value) ELSE ParseErr

clan_timer(i) ==
    LET r == le_u8(i)
    IN  IF r.ok THEN map(r, [type |-> "ClanTimer", duration |-> from_secs(r.value)])
        ELSE ParseErr

client_areas(i) ==
    LET icon_index == le_u8(i)
        flags == IF icon_index.ok THEN le_u8(icon_index.rest) ELSE ParseErr
        hud_icon == IF ~flags.ok THEN ParseErr
                    ELSE IF flags.value = 255
                         THEN LET s == null_string(flags.rest)
                              IN  IF s.ok THEN ParseOk(s.rest, <<s.value>>) ELSE ParseErr
                         ELSE ParseOk(flags.rest, << >>)
    IN  IF hud_icon.ok
        THEN map(hud_icon, [type |-> "ClientAreas", icon_index |-> icon_index.value,
                            hud_icon |-> hud_icon.value])
        ELSE ParseErr

death_msg(i) ==
    LET r == all_consuming(tuple(<<"le_u8", "le_u8", "weapon">>, i, << >>))
    IN  IF r.ok
        THEN map(r, [type |-> "DeathMsg", killer_client_index |-> r.value[1],
                     victim_client_index |-> r.value[2], weapon |-> r.value[3]])
        ELSE ParseErr

frags(i) ==
    LET r == all_consuming(tuple(<<"le_u8", "le_i16">>, i, << >>))
    IN  IF r.ok
        THEN map(r, [type |-> "Frags", client_index |-> r.value[1], frags |-> r.value[2]])
        ELSE ParseErr

init_hud(i) == map(eof(i), [type |-> "InitHUD"])

obj_score(i) ==
    LET r == all_consuming(tuple(<<"le_u8", "le_i16">>, i, << >>))
    IN  IF r.ok
        THEN map(r, [type |-> "ObjScore", client_index |-> r.value[1], score |-> r.value[2]])
        ELSE ParseErr

p_class(i) ==
    LET r == all_consuming(tuple(<<"le_u8", "class">>, i, << >>))
    IN  IF r.ok
        THEN map(r, [type |-> "PClass", client_index |-> r.value[1], class |-> r.value[2]])
        ELSE ParseErr

p_team(i) ==
    LET r == all_consuming(tuple(<<"le_u8", "team">>, i, << >>))
    IN  IF r.ok
        THEN map(r, [type |-> "PTeam", client_index |-> r.value[1], team |-> r.value[2]])
        ELSE ParseErr

\* value 1 is RoundState::Start in dod/src/lib.rs, the state the analysis
\* matches as RoundState::Normal
round_state(i) ==
    LET r == all_consuming(le_u8(i))
    IN  IF r.ok /\ r.value \in {0, 1, 3, 4, 5}
        THEN map(r, [type |-> "RoundState",
                     round_state |-> CASE r.value = 0 -> "Reset"
                                       [] r.value = 1 -> "Normal"
                                       [] r.value = 3 -> "AlliesWin"
                                       [] r.value = 4 -> "AxisWin"
                                       [] r.value = 5 -> "Draw"])
        ELSE ParseErr

score_short(i) ==
    LET r == all_consuming(
                 tuple(<<"le_u8", "le_i16", "le_i16", "le_i16", "le_u8">>, i, << >>))
    IN  IF r.ok
        THEN map(r, [type |-> "ScoreShort", client_index |-> r.value[1],
                     score |-> r.value[2], kills |-> r.value[3], deaths |-> r.value[4]])
        ELSE ParseErr

\* context("ScreenFade", fail())
screen_fade(i) == ParseErr

team_score(i) ==
    LET r == all_consuming(tuple(<<"team", "le_u16">>, i, << >>))
    IN  IF r.ok
        THEN map(r, [type |-> "TeamScore", team |-> r.value[1], score |-> r.value[2]])
        ELSE ParseErr

\* the message names of the inputs: recognized ones, and one that is not
MessageNames ==
    {"ClanTimer", "ClientAreas", "DeathMsg", "Frags", "InitHUD", "ObjScore",
     "PClass", "PTeam", "RoundState", "ScoreShort", "ScreenFade", "TeamScore",
     "Bogus"}

\* the parser the name selects, applied to the payload; the name is taken
\* as it is after from_utf8 and trim_end_matches('\x00')
Parse(msg_name_, i) ==
    CASE msg_name_ = "ClanTimer" -> clan_timer(i)
      [] msg_name_ = "ClientAreas" -> client_areas(i)
      [] msg_name_ = "DeathMsg" -> death_msg(i)
      [] msg_name_ = "Frags" -> frags(i)
      [] msg_name_ = "InitHUD" -> init_hud(i)
      [] msg_name_ = "ObjScore" -> obj_score(i)
      [] msg_name_ = "PClass" -> p_class(i)
      [] msg_name_ = "PTeam" -> p_team(i)
      [] msg_name_ = "RoundState" -> round_state(i)
      [] msg_name_ = "ScoreShort" -> score_short(i)
      [] msg_name_ = "ScreenFade" -> screen_fade(i)
      [] msg_name_ = "TeamScore" -> team_score(i)
      [] OTHER -> ParseErr

\* UserMessage::new: the rest the parser leaves is dropped
Error_ParserError == [ok |-> FALSE]

UserMessage_new(msg_name_, msg_data_) ==
    LET r == Parse(msg_name_, msg_data_)
    IN  IF r.ok THEN [ok |-> TRUE, message |-> r.value] ELSE Error_ParserError

\* the payloads of the inputs that are an encoding of the message
ValidPayloads(msg_name_) ==
    CASE msg_name_ = "ClanTimer" -> {<<b>> : b \in {0, 5, 255}}
      [] msg_name_ = "ClientAreas" ->
             {<<1, f>> : f \in {0, 1}}
             \cup {<<1, 255>> \o s \o <<0>> : s \in {<< >>, <<65>>}}
      [] msg_name_ = "DeathMsg" -> {<<k, v, w>> : k \in {0, 1}, v \in {1, 2}, w \in {5, 10}}
      [] msg_name_ = "Frags" -> {<<1, lo, hi>> : lo \in {0, 1}, hi \in {0, 255}}
      [] msg_name_ = "InitHUD" -> {<< >>}
      [] msg_name_ = "ObjScore" -> {<<1, lo, hi>> : lo \in {0, 1}, hi \in {0, 255}}
      [] msg_name_ = "PClass" -> {<<1, 1>>, <<2, 27>>}
      [] msg_name_ = "PTeam" -> {<<1, 1>>, <<1, 2>>, <<2, 3>>}
      [] msg_name_ = "RoundState" -> {<<0>>, <<1>>, <<3>>, <<4>>, <<5>>}
      [] msg_name_ = "ScoreShort" ->
             {<<1, s, 0, k, 0, d, 255, 0>> : s \in {0, 1}, k \in {0, 2}, d \in {0, 3}}
      [] msg_name_ = "TeamScore" -> {<<t, lo, 0>> : t \in {1, 2}, lo \in {0, 1}}
      [] OTHER -> {}

\* the payloads of the inputs: the encodings, each of them with a byte more
\* and with a byte less, and payloads with a value no enum has
Payloads(msg_name_) ==
    ValidPayloads(msg_name_)
    \cup {p \o <<b>> : p \in ValidPayloads(msg_name_), b \in {0, 7}}
    \cup {SubSeq(p, 1, Len(p) - 1) : p \in ValidPayloads(msg_name_) \ {<< >>}}
    \cup {<< >>, <<99>>, <<1, 99>>}

\* UserMessage::new is called on the name and the payload
Decode ==
    /\ message = << >>
    /\ message' = <<UserMessage_new(msg_name, msg_data)>>
    /\ UNCHANGED <<msg_name, msg_data>>
    /\ UNCHANGED <<fold_vars, adapter_vars, steam_vars, timing_vars, mortality_vars, compare_vars>>

-----------------------------------------------------------------------------
(* The event adapter (frame_to_events and the chain of Analysis::from_bytes) *)

EngineMessages == {[type |-> "SvcTime", time |-> 6]}

\* user messages as the container holds them, a name and a payload: one that
\* decodes and one that does not
UserMessages ==
    {[name |-> "RoundState", data |-> <<0>>],
     [name |-> "RoundState", data |-> <<9>>]}

NetMessage_EngineMessage(m) == [kind |-> "EngineMessage", msg |-> m]
NetMessage_UserMessage(m) == [kind |-> "UserMessage", name |-> m.name, data |-> m.data]

NetMessages ==
    {NetMessage_EngineMessage(m) : m \in EngineMessages}
    \cup {NetMessage_UserMessage(m) : m \in UserMessages}

\* the sequences over S of length n, and of length up to n
RECURSIVE SeqsOfLen(_, _)
SeqsOfLen(S, n) ==
    IF n = 0 THEN {<< >>}
    ELSE {Append(q, x) : q \in SeqsOfLen(S, n - 1), x \in S}

SeqsUpTo(S, n) == UNION {SeqsOfLen(S, k) : k \in 0..n}

\* frames: network messages with parsed or raw message data, and the others
\* (demo start, console command, client data, ...)
Frames ==
    {[frame_data |-> "NetworkMessage", messages |-> "Parsed", msgs |-> q] :
        q \in SeqsUpTo(NetMessages, MaxFrameMessages)}
    \cup {[frame_data |-> "NetworkMessage", messages |-> "Raw", msgs |-> << >>],
          [frame_data |-> "Other", messages |-> "None", msgs |-> << >>]}

AnalyzerEvent_Initialization == [type |-> "Initialization"]
AnalyzerEvent_Finalization == [type |-> "Finalization"]
AnalyzerEvent_EngineMessage(m) == [type |-> "EngineMessage", msg |-> m]
AnalyzerEvent_UserMessage(m) == [type |-> "UserMessage", msg |-> m]

\* the loop of frame_to_events over the messages from position k on;
\* the loop ends at the first user message that does not decode
RECURSIVE PushEvents_StopsOnError(_, _, _)
PushEvents_StopsOnError(msgs, k, events_) ==
    IF k > Len(msgs) THEN events_
    ELSE IF msgs[k].kind = "UserMessage"
    THEN LET dod_msg == UserMessage_new(msgs[k].name, msgs[k].data)
         IN  IF dod_msg.ok
             THEN PushEvents_StopsOnError(msgs, k + 1,
                      Append(events_, AnalyzerEvent_UserMessage(dod_msg.message)))
             ELSE events_
    ELSE PushEvents_StopsOnError(msgs, k + 1,
             Append(events_, AnalyzerEvent_EngineMessage(msgs[k].msg)))

\* the loop of frame_to_events over the messages from position k on
RECURSIVE PushEvents(_, _, _)
PushEvents(msgs, k, events_) ==
    IF k > Len(msgs) THEN events_
    ELSE IF msgs[k].kind = "UserMessage"
    THEN LET dod_msg == UserMessage_new(msgs[k].name, msgs[k].data)
         IN  IF dod_msg.ok
             THEN PushEvents(msgs, k + 1,
                      Append(events_, AnalyzerEvent_UserMessage(dod_msg.message)))
             ELSE PushEvents(msgs, k + 1, events_)
    ELSE PushEvents(msgs, k + 1,
             Append(events_, AnalyzerEvent_EngineMessage(msgs[k].msg)))

frame_to_events(frame) ==
    IF frame.frame_data = "NetworkMessage" /\ frame.messages = "Parsed"
    THEN PushEvents(frame.msgs, 1, << >>)
    ELSE << >>

\* the number of frames in the entries
RECURSIVE FramesRead(_)
FramesRead(entries) ==
    IF entries = << >> THEN 0 ELSE Len(Head(entries)) + FramesRead(Tail(entries))

\* the chain has not yielded Finalization yet
Chaining == events = << >> \/ events[Len(events)] # AnalyzerEvent_Finalization

\* the head of the chain: vec![Initialization]
YieldInitialization ==
    /\ events = << >>
    /\ events' = <<AnalyzerEvent_Initialization>>
    /\ UNCHANGED directory
    /\ UNCHANGED <<fold_vars, decoder_vars, steam_vars, timing_vars, mortality_vars, compare_vars>>

\* the outer flat_map moves on to the next entry of the directory
NextEntry ==
    /\ events # << >> /\ Chaining
    /\ Len(directory) < MaxEntries
    /\ directory' = Append(directory, << >>)
    /\ UNCHANGED events
    /\ UNCHANGED <<fold_vars, decoder_vars, steam_vars, timing_vars, mortality_vars, compare_vars>>

\* the inner flat_map reads the next frame of the entry
NextFrame ==
    /\ events # << >> /\ Chaining
    /\ directory # << >>
    /\ FramesRead(directory) < MaxFrames
    /\ \E frame \in Frames :
           /\ directory' = [directory EXCEPT ![Len(directory)] = Append(@, frame)]
           /\ events' = events \o frame_to_events(frame)
    /\ UNCHANGED <<fold_vars, decoder_vars, steam_vars, timing_vars, mortality_vars, compare_vars>>

\* the tail of the chain: vec![Finalization]
YieldFinalization ==
    /\ events # << >> /\ Chaining
    /\ events' = Append(events, AnalyzerEvent_Finalization)
    /\ UNCHANGED directory
    /\ UNCHANGED <<fold_vars, decoder_vars, steam_vars, timing_vars, mortality_vars, compare_vars>>

-----------------------------------------------------------------------------
(* Steam ids (PlayerGlobalId::as_steam_id, SteamId::try_from) *)

\* A PlayerGlobalId is taken here as the sequence of its characters, and a u64
\* as the sequence of its decimal digits, most significant first, without
\* leading zeros.

DecimalChars == <<"0", "1", "2", "3", "4", "5", "6", "7", "8", "9">>

DigitOf(c) == CHOOSE d \in 0..9 : DecimalChars[d + 1] = c

IsDecimalChar(c) == \E d \in 0..9 : DecimalChars[d + 1] = c

RECURSIVE StripZeros(_)
StripZeros(ds) ==
    IF Len(ds) > 1 /\ Head(ds) = 0 THEN StripZeros(Tail(ds)) ELSE ds

\* ds < es, for digit sequences without leading zeros
RECURSIVE LessDigits(_, _)
LessDigits(ds, es) ==
    IF Len(ds) # Len(es) THEN Len(ds) < Len(es)
    ELSE IF ds = << >> THEN FALSE
    ELSE IF Head(ds) # Head(es) THEN Head(ds) < Head(es)
    ELSE LessDigits(Tail(ds), Tail(es))

\* u64::MAX and 2^64
U64Max == <<1, 8, 4, 4, 6, 7, 4, 4, 0, 7, 3, 7, 0, 9, 5, 5, 1, 6, 1, 5>>
TwoPow64 == <<1, 8, 4, 4, 6, 7, 4, 4, 0, 7, 3, 7, 0, 9, 5, 5, 1, 6, 1, 6>>

\* the literal 76561197960265728
SteamId64Base == <<7, 6, 5, 6, 1, 1, 9, 7, 9, 6, 0, 2, 6, 5, 7, 2, 8>>

\* ds - es for ds >= es: column k counted from the right, with the borrow
RECURSIVE SubColumns(_, _, _, _)
SubColumns(ds, es, k, borrow) ==
    IF k > Len(ds) THEN << >>
    ELSE LET d == ds[Len(ds) + 1 - k]
             e == IF k <= Len(es) THEN es[Len(es) + 1 - k] ELSE 0
             x == d - e - borrow
         IN  Append(SubColumns(ds, es, k + 1, IF x < 0 THEN 1 ELSE 0),
                    IF x < 0 THEN x + 10 ELSE x)

SubDigits(ds, es) == StripZeros(SubColumns(ds, es, 1, 0))

\* ds / 2: long division from the left, with the remainder carried
RECURSIVE HalfColumns(_, _, _)
HalfColumns(ds, k, carry) ==
    IF k > Len(ds) THEN << >>
    ELSE LET x == 10 * carry + ds[k]
         IN  <<x \div 2>> \o HalfColumns(ds, k + 1, x % 2)

HalfDigits(ds) == StripZeros(HalfColumns(ds, 1, 0))

\* ds % 2, which is also ds & 1
LowBit(ds) == ds[Len(ds)] % 2

RECURSIVE FormatDigits(_)
FormatDigits(ds) ==
    IF ds = << >> THEN "" ELSE DecimalChars[Head(ds) + 1] \o FormatDigits(Tail(ds))

\* str::parse::<u64>: an optional '+', then one decimal digit or more, and a
\* value of at most u64::MAX; the result is a sequence holding the value, or
\* the empty sequence for an error
parse_u64(chars) ==
    LET body == IF chars # << >> /\ Head(chars) = "+" THEN Tail(chars) ELSE chars
    IN  IF body = << >> \/ \E k \in 1..Len(body) : ~IsDecimalChar(body[k])
        THEN << >>
        ELSE LET ds == StripZeros([k \in 1..Len(body) |-> DigitOf(body[k])])
             IN  IF LessDigits(U64Max, ds) THEN << >> ELSE <<ds>>

None == [panicked |-> FALSE, some |-> FALSE]
Some(value) == [panicked |-> FALSE, some |-> TRUE, value |-> value]
SubtractOverflow == [panicked |-> TRUE, some |-> FALSE]

\* the body of as_steam_id and of SteamId::try_from; in a build with overflow
\* checks the subtraction panics below the base, otherwise it wraps
as_steam_id(chars, overflow_checks) ==
    LET parsed == parse_u64(chars)
    IN  IF parsed = << >> THEN None
        ELSE LET id64 == parsed[1]
             IN  IF LessDigits(id64, SteamId64Base) /\ overflow_checks
                 THEN SubtractOverflow
                 ELSE LET account_id ==
                              IF LessDigits(id64, SteamId64Base)
                              THEN SubDigits(TwoPow64, SubDigits(SteamId64Base, id64))
                              ELSE SubDigits(id64, SteamId64Base)
                          server_id == LowBit(account_id)
                          halved == HalfDigits(SubDigits(account_id, <<server_id>>))
                      IN  Some("STEAM_0:" \o FormatDigits(<<LowBit(halved)>>)
                               \o ":" \o FormatDigits(halved))

\* the characters of a decimal number below 10000, in four places
FourChars(n) ==
    <<DecimalChars[(n \div 1000) + 1], DecimalChars[((n \div 100) % 10) + 1],
      DecimalChars[((n \div 10) % 10) + 1], DecimalChars[(n % 10) + 1]>>

\* ids of the inputs: id64 values around the base (7656119796026 followed by
\* four digits, the base ending in 5728), small numbers, the largest u64 and
\* its successor, and ids that are no decimal numbers
GlobalIds ==
    {<<"7", "6", "5", "6", "1", "1", "9", "7", "9", "6", "0", "2", "6">> \o FourChars(n) :
        n \in (5725..5790) \cup {9086, 9999}}
    \cup {<<"0">>, <<"4", "2">>, <<"+", "7">>, << >>, <<"S", "1">>,
          <<"0", "7", "0", "0", "0", "0", "0", "0">>,
          <<"0", "7", "a", "0", "0", "0", "0", "0">>,
          [k \in 1..20 |-> DecimalChars[U64Max[k] + 1]],
          [k \in 1..20 |-> DecimalChars[TwoPow64[k] + 1]]}

\* the projection is taken of the id
AsSteamId ==
    /\ steam_id = << >>
    /\ \E overflow_checks \in BOOLEAN :
           steam_id' = <<as_steam_id(global_id, overflow_checks)>>
    /\ UNCHANGED global_id
    /\ UNCHANGED <<fold_vars, adapter_vars, decoder_vars, timing_vars, mortality_vars, compare_vars>>

-----------------------------------------------------------------------------
(* The clock of time.rs *)

GameTime_default == [real_offset |-> 0, viewdemo_offset |-> 0]

\* SvcTime (the viewdemo clock) and RealTimeChange events
TimingEvents ==
    {[type |-> "SvcTime", time |-> t] : t \in SvcTimes}
    \cup {[type |-> "RealTimeChange", value |-> t] : t \in SvcTimes}

\* use_timing_updates of time.rs, on the GameTime alone
use_timing_updates_clamped(time, e) ==
    IF e.type = "SvcTime"
    THEN LET offset == from_secs_f32(e.time)
         IN  IF offset > time.real_offset \/ time.real_offset = 0
             THEN [time EXCEPT !.viewdemo_offset = offset]
             ELSE time
    ELSE IF e.type = "RealTimeChange"
    THEN LET offset == from_secs_f32(e.value)
         IN  IF offset > time.real_offset \/ time.real_offset = 0
             THEN [time EXCEPT !.real_offset = offset]
             ELSE time
    ELSE time

TimingStep(e) ==
    /\ Len(timing_events) < MaxTimingEvents
    /\ clock_time' = use_timing_updates_clamped(clock_time, e)
    /\ timing_events' = Append(timing_events, e)
    /\ UNCHANGED <<fold_vars, adapter_vars, decoder_vars, steam_vars, mortality_vars, compare_vars>>

ViewdemoTime == \E t \in SvcTimes : TimingStep([type |-> "SvcTime", time |-> t])

RealTimeChange == \E t \in SvcTimes : TimingStep([type |-> "RealTimeChange", value |-> t])

-----------------------------------------------------------------------------
(* Mortality of players (mortality.rs) *)

Mortalities == {"Alive", "Dead"}

MortalityChange_new(time, m) == <<time, m>>

\* MortalityState::mortality_changes of a Player
mortality_changes(ms, id) == IF id \in DOMAIN ms THEN ms[id] ELSE << >>

\* MortalityState::mortality: the last change, as an Option
mortality_of(changes) ==
    IF changes = << >> THEN << >> ELSE << changes[Len(changes)][2] >>

is_alive(changes) == mortality_of(changes) = << "Alive" >>

\* Player::mortality_changed
mortality_changed(ms, id, change) ==
    [k \in (DOMAIN ms) \cup {id} |->
        IF k = id THEN Append(mortality_changes(ms, id), change) ELSE ms[k]]

\* MortalityState::lifespans: the fold over the changes, from change i on
RECURSIVE LifespansFrom(_, _, _, _)
LifespansFrom(changes, i, spawn_time, acc) ==
    IF i > Len(changes) THEN [lifespans |-> acc, panicked |-> FALSE]
    ELSE IF changes[i][2] = "Alive"
    THEN LifespansFrom(changes, i + 1,
             IF spawn_time = << >> THEN << changes[i][1] >> ELSE spawn_time, acc)
    ELSE IF spawn_time = << >>
    THEN LifespansFrom(changes, i + 1, spawn_time, acc)
    ELSE IF changes[i][1].viewdemo_offset < spawn_time[1].viewdemo_offset
    THEN [lifespans |-> acc, panicked |-> TRUE]   \* Duration subtraction overflows
    ELSE LifespansFrom(changes, i + 1, << >>,
             Append(acc, changes[i][1].viewdemo_offset - spawn_time[1].viewdemo_offset))

lifespans(changes) == LifespansFrom(changes, 1, << >>, << >>)

\* the Finalization arm: every player that is alive is killed
KillAlive(ps, time, ms) ==
    [k \in DOMAIN ms |->
        IF (\E i \in 1..Len(ps) : ps[i].id = k) /\ is_alive(ms[k])
        THEN Append(ms[k], MortalityChange_new(time, "Dead"))
        ELSE ms[k]]

MortalIndex(e) == IF e.type = "DeathMsg" THEN e.victim_client_index ELSE e.client_index

MortalValue(e) == IF e.type = "DeathMsg" THEN "Dead" ELSE "Alive"

\* mutant: a change is recorded whatever the current mortality is
with_mortality_detection_AlwaysRecords(ps, time, ms, e, overflow_checks) ==
    IF e.type = "Finalization"
    THEN [mortality |-> KillAlive(ps, time, ms), panicked |-> FALSE]
    ELSE IF e.type \in {"DeathMsg", "PStatus"}
    THEN IF MortalIndex(e) = 0 /\ overflow_checks
         THEN [mortality |-> ms, panicked |-> TRUE]
         ELSE LET p == find_player_by_client_index(ps, SubOne(MortalIndex(e)))
              IN  IF p = 0 THEN [mortality |-> ms, panicked |-> FALSE]
                  ELSE [mortality |->
                           mortality_changed(ms, ps[p].id,
                               MortalityChange_new(time, MortalValue(e))),
                        panicked |-> FALSE]
    ELSE [mortality |-> ms, panicked |-> FALSE]

with_mortality_detection(ps, time, ms, e, overflow_checks) ==
    IF e.type = "Finalization"
    THEN [mortality |-> KillAlive(ps, time, ms), panicked |-> FALSE]
    ELSE IF e.type \in {"DeathMsg", "PStatus"}
    THEN IF MortalIndex(e) = 0 /\ overflow_checks
         THEN [mortality |-> ms, panicked |-> TRUE]   \* client_index - 1 on a u8
         ELSE LET p == find_player_by_client_index(ps, SubOne(MortalIndex(e)))
              IN  IF p = 0 THEN [mortality |-> ms, panicked |-> FALSE]
                  ELSE IF mortality_of(mortality_changes(ms, ps[p].id))
                              # << MortalValue(e) >>
                  THEN [mortality |->
                           mortality_changed(ms, ps[p].id,
                               MortalityChange_new(time, MortalValue(e))),
                        panicked |-> FALSE]
                  ELSE [mortality |-> ms, panicked |-> FALSE]
    ELSE [mortality |-> ms, panicked |-> FALSE]

\* DeathMsg events by victim, and PStatus events
MortalDeathEvents ==
    {e \in DeathMsgEvents : e.killer_client_index = 0 /\ e.weapon = "Garand"}

PStatusEvents ==
    {[type |-> "PStatus", client_index |-> c, status |-> st] :
        c \in WireIndices, st \in {0, 1}}

MortalBuilds(e) ==
    IF e.type \in {"DeathMsg", "PStatus"} /\ MortalIndex(e) = 0 THEN BOOLEAN ELSE {FALSE}

MortalStep(e, next_pc) ==
    /\ Folding /\ mortality_pc = "fold"
    /\ \E checks \in MortalBuilds(e) :
           LET r == with_mortality_detection(players, clock_time, mortality, e, checks)
           IN  IF r.panicked
               THEN mortality_pc' = "panicked" /\ UNCHANGED mortality
               ELSE mortality_pc' = next_pc /\ mortality' = r.mortality
    /\ UNCHANGED <<fold_vars, adapter_vars, decoder_vars, steam_vars, timing_vars,
                   compare_vars>>

\* no history is at the length the model stops at
MortalityOpen ==
    \A k \in DOMAIN mortality : Len(mortality[k]) < MaxMortalityChanges

MortalDeath == MortalityOpen /\ \E e \in MortalDeathEvents : MortalStep(e, "fold")

PStatus == MortalityOpen /\ \E e \in PStatusEvents : MortalStep(e, "fold")

MortalFinalization == MortalStep([type |-> "Finalization"], "done")

MortalConnect == mortality_pc = "fold" /\ n_events < MaxMortalityEvents /\ LiveConnect

-----------------------------------------------------------------------------
(* The comparator of the scoreboard sort, on its own *)

\* players of every team value and of bounded stats
ScoreboardPlayers(id) ==
    {[Player_new(id) EXCEPT !.team = tm, !.stats = <<sc, k, d>>] :
        tm \in Teams \cup {NoTeam}, sc \in Scores, k \in Scores, d \in Scores}

\* sort_by calls the closure on a pair, in either order
Compare ==
    /\ compare_result = << >>
    /\ compare_result' = << ComparePlayers(compare_left, compare_right),
                            ComparePlayers(compare_right, compare_left) >>
    /\ UNCHANGED <<compare_left, compare_right>>
    /\ UNCHANGED <<fold_vars, adapter_vars, decoder_vars, steam_vars, timing_vars,
                   mortality_vars>>

-----------------------------------------------------------------------------
(* Initial states *)

FoldIdle ==
    /\ pc = "init"
    /\ clan_match_detection = AnalyzerState_default.clan_match_detection
    /\ current_time = AnalyzerState_default.current_time
    /\ players = AnalyzerState_default.players
    /\ rounds = AnalyzerState_default.rounds
    /\ team_scores = AnalyzerState_default.team_scores
    /\ n_events = 0
    /\ killer_events = << >>
    /\ killer_events_live = << >>

AdapterIdle == directory = << >> /\ events = << >>

DecoderIdle == msg_name = "" /\ msg_data = << >> /\ message = << >>

SteamIdle == global_id = << >> /\ steam_id = << >>

\* GameTime::default() of time.rs
TimingIdle == clock_time = GameTime_default /\ timing_events = << >>

\* no player has a mortality history
MortalityIdle == mortality = << >> /\ mortality_pc = "fold"

\* no pair of players is handed to the comparator
CompareIdle == compare_left = << >> /\ compare_right = << >> /\ compare_result = << >>

\* two players of any team and stats are handed to the comparator of the sort
InitCompare ==
    /\ FoldIdle /\ AdapterIdle /\ DecoderIdle /\ SteamIdle /\ TimingIdle /\ MortalityIdle
    /\ compare_left \in ScoreboardPlayers("S1")
    /\ compare_right \in ScoreboardPlayers("S2")
    /\ compare_result = << >>

\* the fold starts from AnalyzerState::default(), the chain has yielded nothing
Init ==
    /\ FoldIdle /\ AdapterIdle /\ DecoderIdle /\ SteamIdle /\ TimingIdle /\ MortalityIdle
    /\ CompareIdle

\* a message name and a payload are handed to UserMessage::new
InitDecode ==
    /\ FoldIdle /\ AdapterIdle /\ SteamIdle /\ TimingIdle /\ MortalityIdle /\ CompareIdle
    /\ msg_name \in MessageNames
    /\ msg_data \in Payloads(msg_name)
    /\ message = << >>

\* a PlayerGlobalId is there to take the Steam id of
InitSteamId ==
    /\ FoldIdle /\ AdapterIdle /\ DecoderIdle /\ TimingIdle /\ MortalityIdle /\ CompareIdle
    /\ global_id \in GlobalIds
    /\ steam_id = << >>

-----------------------------------------------------------------------------
(* Specifications *)

\* every event kind
Next ==
    \/ Initialization
    \/ Finalization
    \/ n_events < MaxEvents /\ SvcTime
    \/ n_events < MaxEvents /\ SvcUpdateUserInfo
    \/ n_events < MaxEvents /\ PClass
    \/ n_events < MaxEvents /\ PTeam
    \/ n_events < MaxEvents /\ ScoreShort
    \/ n_events < MaxEvents /\ ObjScore
    \/ n_events < MaxEvents /\ Frags
    \/ n_events < MaxEvents /\ DeathMsg
    \/ n_events < MaxEvents /\ TeamScore
    \/ n_events < MaxEvents /\ RoundStateMsg
    \/ n_events < MaxEvents /\ ClanTimer
    \/ n_events < MaxEvents /\ OtherMessage

Spec == Init /\ [][Next]_vars

\* every event kind, and no RoundState::Reset
NextNoReset ==
    \/ Initialization
    \/ Finalization
    \/ n_events < MaxEvents /\ SvcTime
    \/ n_events < MaxEvents /\ SvcUpdateUserInfo
    \/ n_events < MaxEvents /\ PClass
    \/ n_events < MaxEvents /\ PTeam
    \/ n_events < MaxEvents /\ ScoreShort
    \/ n_events < MaxEvents /\ ObjScore
    \/ n_events < MaxEvents /\ Frags
    \/ n_events < MaxEvents /\ DeathMsg
    \/ n_events < MaxEvents /\ TeamScore
    \/ n_events < MaxEvents /\ RoundStateNoReset
    \/ n_events < MaxEvents /\ ClanTimer
    \/ n_events < MaxEvents /\ OtherMessage

SpecNoReset == Init /\ [][NextNoReset]_vars

\* sequences of SvcUpdateUserInfo events only
NextUserInfo ==
    \/ Initialization
    \/ Finalization
    \/ n_events < MaxUserInfoEvents /\ SvcUpdateUserInfo

SpecUserInfo == Init /\ [][NextUserInfo]_vars

\* the events the round list and the clan-match detector react to by themselves
NextRounds ==
    \/ Initialization
    \/ Finalization
    \/ n_events < MaxRoundEvents /\ SvcTime
    \/ n_events < MaxRoundEvents /\ RoundStateMsg
    \/ n_events < MaxRoundEvents /\ ClanTimer
    \/ n_events < MaxRoundEvents /\ OtherMessage

SpecRounds == Init /\ [][NextRounds]_vars

\* a two-team match: connections, kills, team scores, round states, the clock
NextKills ==
    \/ Initialization
    \/ Finalization
    \/ n_events < MaxKillEvents /\ MatchClock
    \/ n_events < MaxKillEvents /\ MatchConnect
    \/ n_events < MaxKillEvents /\ MatchDeath
    \/ n_events < MaxKillEvents /\ MatchScore
    \/ n_events < MaxKillEvents /\ MatchRound

SpecKills == Init /\ [][NextKills]_vars

\* a two-team match without round states and scores
NextStreaks ==
    \/ Initialization
    \/ Finalization
    \/ n_events < MaxStreakEvents /\ MatchClock
    \/ n_events < MaxStreakEvents /\ MatchConnect
    \/ n_events < MaxStreakEvents /\ MatchDeath

SpecStreaks == Init /\ [][NextStreaks]_vars

\* a two-team match with restart timers: connections, kills, team scores, round
\* states, ClanTimer
NextLive ==
    \/ Initialization
    \/ Finalization
    \/ n_events < MaxLiveEvents /\ LiveConnect
    \/ n_events < MaxLiveEvents /\ LiveDeath
    \/ n_events < MaxLiveEvents /\ MatchScore
    \/ n_events < MaxLiveEvents /\ MatchRound
    \/ n_events < MaxLiveEvents /\ ClanTimer

SpecLive == Init /\ [][NextLive]_vars

\* team scores of every team, round states and the clock
NextScores ==
    \/ Initialization
    \/ Finalization
    \/ n_events < MaxScoreEvents /\ TeamScore
    \/ n_events < MaxScoreEvents /\ MatchRound
    \/ n_events < MaxScoreEvents /\ MatchClock

SpecScores == Init /\ [][NextScores]_vars

\* the event adapter alone: the chain over the frames of the directory
NextAdapter ==
    \/ YieldInitialization
    \/ NextEntry
    \/ NextFrame
    \/ YieldFinalization

SpecAdapter == Init /\ [][NextAdapter]_vars

\* UserMessage::new on one name and payload
NextDecode == Decode

SpecDecode == InitDecode /\ [][NextDecode]_vars

\* as_steam_id on one PlayerGlobalId
NextSteamId == AsSteamId

SpecSteamId == InitSteamId /\ [][NextSteamId]_vars

\* the clock of time.rs alone: SvcTime and RealTimeChange events
NextTiming ==
    \/ ViewdemoTime
    \/ RealTimeChange

SpecTiming == Init /\ [][NextTiming]_vars

\* kills among players with and without a team
NextTeams ==
    \/ Initialization
    \/ Finalization
    \/ n_events < MaxTeamEvents /\ TeamConnect
    \/ n_events < MaxTeamEvents /\ TeamDeath

SpecTeams == Init /\ [][NextTeams]_vars

\* connections, deaths, status messages and the end of the demo
NextMortality ==
    \/ Initialization
    \/ MortalConnect
    \/ MortalDeath
    \/ PStatus
    \/ MortalFinalization

SpecMortality == Init /\ [][NextMortality]_vars

\* the comparator applied to a pair of players
NextCompare == Compare

SpecCompare == InitCompare /\ [][NextCompare]_vars

-----------------------------------------------------------------------------
(* Claims *)

IsActive(r) == r.kind = "Active"
IsConnected(p) == p.connection_status.connected
ConnectedAt(p, i) == IsConnected(p) /\ p.connection_status.client_id = i

\* C1: the rounds list holds at most one Active round, and only as its last
\* element, after every prefix of the event stream.
C1_RoundTail ==
    \A i \in 1..Len(rounds) : IsActive(rounds[i]) => i = Len(rounds)

\* C2: for every client_id at most one player is Connected{client_id}.
C2_SlotUniqueness ==
    \A i, j \in 1..Len(players) :
        (i # j /\ IsConnected(players[i]) /\ IsConnected(players[j]))
            => players[i].connection_status.client_id
                   # players[j].connection_status.client_id

\* a slot was reused: its earlier occupant is disconnected and keeps its name,
\* another player holds a slot
C2_SlotReused ==
    \E i, j \in 1..Len(players) :
        /\ i # j
        /\ ~IsConnected(players[i]) /\ players[i].name = "A"
        /\ ConnectedAt(players[j], 0)

\* the players list after use_player_updates on event e in the current state
PlayersAfter(e) == use_player_updates(State(FALSE), e).players

EventIdKnown(e) ==
    LET fields == ParseFields(e.user_info) IN
    /\ "*sid" \in DOMAIN fields
    /\ find_player_by_id(players, fields["*sid"]) # 0

\* C3: no two players share a PlayerGlobalId, and an update that carries a known
\* *sid appends no record, whatever slot it arrives on.
C3_IdentityStability ==
    /\ \A i, j \in 1..Len(players) : i # j => players[i].id # players[j].id
    /\ \A e \in SvcUpdateUserInfoEvents :
           EventIdKnown(e) => Len(PlayersAfter(e)) = Len(players)

\* the same identity is known in one slot while the other slot is held by
\* someone else: an update can move it there
C3_KnownIdElsewhere ==
    \E i, j \in 1..Len(players) :
        /\ players[i].id = "S1" /\ ConnectedAt(players[i], 1)
        /\ players[j].id = "S2" /\ ConnectedAt(players[j], 0)
        /\ n_events >= 4

RECURSIVE SumOver(_, _)
SumOver(f, S) ==
    IF S = {} THEN 0
    ELSE LET x == CHOOSE y \in S : TRUE IN f[x][1] + f[x][2] + SumOver(f, S \ {x})

\* sum over all weapons of kills + teamkills
BreakdownTotal(p) == SumOver(p.weapon_breakdown, DOMAIN p.weapon_breakdown)

\* C4 (as claimed): for every player, the sum over all weapons of kills +
\* teamkills equals the number of DeathMsg events processed so far that resolved
\* the player as killer, also when the detector goes live.
C4_KillAccounting ==
    \A i \in 1..Len(players) :
        BreakdownTotal(players[i]) = Get(killer_events, players[i].id)

\* C4 (amended): for every player, the sum over all weapons of kills + teamkills
\* equals the number of DeathMsg events processed since the detector last went
\* live (since the start when it never did) that resolved the player as killer.
C4_KillAccountingSinceLive ==
    \A i \in 1..Len(players) :
        BreakdownTotal(players[i]) = Get(killer_events_live, players[i].id)

\* a player killed, then the detector went live and the kill is no longer in
\* the breakdown
C4_KillsDiscardedByGoLive ==
    /\ clan_match_detection.tag = "MatchIsLive"
    /\ \E i \in 1..Len(players) :
           /\ Get(killer_events, players[i].id) > 0
           /\ BreakdownTotal(players[i]) = 0

StreakOrdered(streak) ==
    \A k \in 1..(Len(streak) - 1) : streak[k][1] <= streak[k + 1][1]

\* C5: within every kill streak of every player the kill times are
\* non-decreasing in list order, also when SvcTime carries a lower time.
C5_StreakTimeOrder ==
    \A i \in 1..Len(players) :
        \A j \in 1..Len(players[i].kill_streaks) :
            StreakOrdered(players[i].kill_streaks[j])

PlayerCleared(p) ==
    /\ p.kill_streaks = << >>
    /\ DOMAIN p.weapon_breakdown = {}
    /\ p.stats[1] = 0

GoesLive ==
    clan_match_detection.tag # "MatchIsLive" /\ clan_match_detection'.tag = "MatchIsLive"

NormalDeadline(r) == r + from_secs(MaxNormalDurationSecs)

\* C7: while the detector waits for the Normal of a Reset at r the game time is
\* not past r + T, so the detector is back in WaitingForReset before any later
\* event is processed; and the detector goes live only from WaitingForNormal{r},
\* at a time not past r + T.
C7_ClanMatchTimeout ==
    /\ [](clan_match_detection.tag = "WaitingForNormal" =>
              current_time <= NormalDeadline(clan_match_detection.reset_time))
    /\ [][GoesLive =>
              /\ clan_match_detection.tag = "WaitingForNormal"
              /\ current_time' <= NormalDeadline(clan_match_detection.reset_time)]_vars

\* Initialization, a Reset, and a SvcTime past the deadline of that Reset: the
\* detector has given the Reset up
C7_ResetTimedOut ==
    /\ n_events = 3
    /\ Len(rounds) = 2
    /\ clan_match_detection.tag = "WaitingForReset"
    /\ current_time > NormalDeadline(Last(rounds).start_time)

\* the clan-match update changes nothing of x but the detector: rounds, the
\* team-score timeline and the players stay as they are
ClanStepKeeps(x, e) ==
    [ClanStep(x, e) EXCEPT !.clan_match_detection = x.clan_match_detection] = x

\* C8: in a sequence without RoundState::Reset the detector is WaitingForReset
\* in every state, and for every event other than a Reset that the fold
\* processes next (Finalization included) the clan-match update leaves rounds,
\* the team-score timeline and every player as the seven updates before it left
\* them.
C8_ClanMatchIdempotence ==
    /\ clan_match_detection.tag = "WaitingForReset"
    /\ Folding =>
           ClanStepKeeps(UpdatesBeforeClan(State(FALSE), [type |-> "Finalization"]),
                         [type |-> "Finalization"])
    /\ (Folding /\ n_events < MaxEvents) =>
           \A e \in Events \ {ResetEvent} : \A checks \in Builds(e) :
               ClanStepKeeps(UpdatesBeforeClan(State(checks), e), e)

\* a won round and a kill are on record, and the detector still
\* waits for a Reset
C8_RecordedWithoutReset ==
    /\ clan_match_detection.tag = "WaitingForReset"
    /\ \E i \in 1..Len(rounds) : ~IsActive(rounds[i]) /\ rounds[i].winner_stats # NoStats
    /\ \E i \in 1..Len(players) : BreakdownTotal(players[i]) > 0

NoActiveTail == rounds = << >> \/ ~IsActive(Last(rounds))

\* C9: a step that processes AlliesWin or AxisWin while rounds is empty or its
\* tail is Completed ends the analysis in the error state, with rounds as they
\* were; the rounds update panics on a win over an empty rounds list.
C9_WinWithoutActiveRound ==
    /\ [](\A e \in WinEvents :
              use_rounds_updates([State(FALSE) EXCEPT !.rounds = << >>], e).panicked)
    /\ [][(Folding /\ NoActiveTail /\ \E e \in WinEvents : Process(e, "fold")) =>
              (pc' = "panicked" /\ rounds' = rounds)]_vars
    /\ [][pc = "panicked" => pc' = "panicked"]_vars

\* the analysis aborted on a win that followed a win
C9_AbortedOnSecondWin ==
    /\ pc = "panicked"
    /\ NoActiveTail
    /\ clan_match_detection.tag = "WaitingForReset"

\* C10: on Finalization an Active tail is replaced by Completed{start_time,
\* end_time: current_time, winner_stats: None}; with a Completed tail, or no
\* round, the rounds list is left unchanged.
C10_FinalizationCompletesActiveTail ==
    [][(pc = "fold" /\ pc' = "done") =>
          rounds' = IF NoActiveTail THEN rounds
                    ELSE Append(Front(rounds),
                             Completed(Last(rounds).start_time, current_time, NoStats))]_vars

IsPrefix(a, b) == Len(a) <= Len(b) /\ SubSeq(b, 1, Len(a)) = a

\* nothing accumulated is lost between the two states of a step: no round is
\* dropped, the team-score timeline is only extended, and every player keeps
\* its kill streaks and kills
NothingCleared ==
    /\ Len(rounds') >= Len(rounds)
    /\ IsPrefix(team_scores.timeline, team_scores'.timeline)
    /\ Len(players') >= Len(players)
    /\ \A i \in 1..Len(players) :
           /\ Len(players'[i].kill_streaks) >= Len(players[i].kill_streaks)
           /\ BreakdownTotal(players'[i]) >= BreakdownTotal(players[i])

\* C11: a ClanTimer processed in MatchIsLive moves the detector to
\* WaitingForReset and changes nothing else (rounds, team scores, players, the
\* clock); and while the fold runs, accumulated state is cleared only by the
\* step that goes live.
C11_RestartKeepsState ==
    /\ [][(Folding /\ clan_match_detection.tag = "MatchIsLive"
             /\ Process(ClanTimerEvent, "fold")) =>
              /\ clan_match_detection' = WaitingForReset
              /\ UNCHANGED <<rounds, team_scores, players, current_time>>]_vars
    /\ [][(Folding /\ pc' = "fold" /\ ~GoesLive) => NothingCleared]_vars

\* a restart was detected after the match went live and a kill was recorded in
\* it; the kill before the match went live is gone
C11_RestartAfterLiveKill ==
    /\ clan_match_detection.tag = "WaitingForReset"
    /\ Len(rounds) = 1
    /\ \E i \in 1..Len(players) :
           /\ Get(killer_events_live, players[i].id) = 1
           /\ Get(killer_events, players[i].id) = 2
           /\ BreakdownTotal(players[i]) = 1

\* C12: get_team_score(T) is the points of the TeamScore event for T processed
\* last since the last go-live: a TeamScore event for T sets it to the event's
\* points and leaves the other teams' scores as they are, a go-live sets every
\* team's score to 0, any other step leaves all of them, and it is 0 for a team
\* without a timeline entry.
C12_CurrentTeamScore ==
    /\ [](\A team \in Teams :
              (\A i \in 1..Len(team_scores.timeline) : team_scores.timeline[i][2] # team)
                  => get_team_score(team_scores, team) = 0)
    /\ [][\A e \in TeamScoreEvents :
              (Folding /\ pc' = "fold" /\ Process(e, "fold")) =>
                  \A team \in Teams :
                      get_team_score(team_scores', team) =
                          IF team = e.team THEN e.score
                          ELSE get_team_score(team_scores, team)]_vars
    /\ [][GoesLive => \A team \in Teams : get_team_score(team_scores', team) = 0]_vars
    /\ [][(team_scores'.timeline = team_scores.timeline) =>
              \A team \in Teams :
                  get_team_score(team_scores', team) = get_team_score(team_scores, team)]_vars

\* a team's score was set to 1 and later to 0, after another team scored
C12_ScoreOverwritten ==
    \E i, j, k \in 1..Len(team_scores.timeline) :
        /\ i < j /\ j < k /\ k = Len(team_scores.timeline)
        /\ team_scores.timeline[i][2] = "Allies" /\ team_scores.timeline[i][3] = 1
        /\ team_scores.timeline[j][2] = "Axis" /\ team_scores.timeline[j][3] = 1
        /\ team_scores.timeline[k][2] = "Allies" /\ team_scores.timeline[k][3] = 0
        /\ get_team_score(team_scores, "Allies") = 0
        /\ get_team_score(team_scores, "Axis") = 1

PlayerIds(ps) == {ps[i].id : i \in 1..Len(ps)}

\* C13: the set of PlayerGlobalIds in players only grows: every step keeps
\* every id that was in players, and the list never gets shorter.
C13_PlayersNeverRemoved ==
    [][PlayerIds(players) \subseteq PlayerIds(players') /\ Len(players') >= Len(players)]_vars

\* the match went live after a player lost its slot to another one: both are
\* still in players, one of them Disconnected
C13_DisconnectedKeptAcrossGoLive ==
    /\ clan_match_detection.tag = "MatchIsLive"
    /\ \E i, j \in 1..Len(players) :
           /\ ~IsConnected(players[i])
           /\ IsConnected(players[j])
           /\ players[i].id = "S2"

\* C14: players is in insertion order: no step, Finalization included, moves a
\* player that is already in the list, and new players are appended at the end.
C14_PlayersInsertionOrder ==
    [][/\ Len(players') >= Len(players)
       /\ \A i \in 1..Len(players) : players'[i].id = players[i].id]_vars

\* the state of a run without the value it drew from Uuid::new_v4()
Observable(s) == [s EXCEPT !.new_v4 = ""]

\* the states a run may be in after it has folded e, when Uuid::new_v4()
\* returns new_v4 during the step
RunOutcomes(e, checks, new_v4) ==
    {Observable(o) : o \in Outcomes(FoldStep(StateWith(checks, new_v4), e), e)}

\* the ids a SvcUpdateUserInfo of the inputs can give a player: its *sid, or
\* the hex form of the seed made of its server id
DerivedIds ==
    {IF "*sid" \in DOMAIN ParseFields(e.user_info)
     THEN ParseFields(e.user_info)["*sid"]
     ELSE HexOf(uuid_seed(e.id)) : e \in SvcUpdateUserInfoEvents}

RECURSIVE FlatFrames(_)
FlatFrames(entries) ==
    IF entries = << >> THEN << >> ELSE Head(entries) \o FlatFrames(Tail(entries))

\* the net messages of the frames that carry parsed messages, in wire order
RECURSIVE FlatMessages(_)
FlatMessages(frames) ==
    IF frames = << >> THEN << >>
    ELSE (IF Head(frames).frame_data = "NetworkMessage" /\ Head(frames).messages = "Parsed"
          THEN Head(frames).msgs ELSE << >>) \o FlatMessages(Tail(frames))

\* the net message is an engine message or a user message that decodes
Yields(m) == m.kind = "EngineMessage" \/ UserMessage_new(m.name, m.data).ok

EventOf(m) ==
    IF m.kind = "EngineMessage" THEN AnalyzerEvent_EngineMessage(m.msg)
    ELSE AnalyzerEvent_UserMessage(UserMessage_new(m.name, m.data).message)

RECURSIVE Yielding(_)
Yielding(msgs) ==
    IF msgs = << >> THEN << >>
    ELSE (IF Yields(Head(msgs)) THEN <<Head(msgs)>> ELSE << >>) \o Yielding(Tail(msgs))

\* C16: the stream starts with the one Initialization; Finalization is in it
\* at most once, as its last event; the events in between are, in container
\* frame order and wire order, one event per engine message and per user
\* message that decodes, and nothing for a user message that does not decode.
C16_EventAdapterOrdering ==
    events # << >> =>
        LET expected == Yielding(FlatMessages(FlatFrames(directory)))
            middle == SubSeq(events, 2, Len(events) - (IF Chaining THEN 0 ELSE 1))
        IN  /\ events[1] = AnalyzerEvent_Initialization
            /\ \A k \in 2..Len(events) : events[k] # AnalyzerEvent_Initialization
            /\ \A k \in 1..(Len(events) - 1) : events[k] # AnalyzerEvent_Finalization
            /\ Len(middle) = Len(expected)
            /\ \A k \in 1..Len(middle) : middle[k] = EventOf(expected[k])

\* the chain is through with two entries in which a user message that does
\* not decode stands between a user message and an engine message that
\* made it into the stream
C16_FailureBetweenEvents ==
    /\ ~Chaining
    /\ Len(directory) = 2
    /\ directory[1] # << >> /\ directory[2] # << >>
    /\ LET msgs == FlatMessages(FlatFrames(directory))
       IN  /\ Len(msgs) = 3
           /\ msgs[1].kind = "UserMessage" /\ Yields(msgs[1])
           /\ ~Yields(msgs[2])
           /\ msgs[3].kind = "EngineMessage"
    /\ Len(events) = 4

\* the payload is an encoding of the message followed by one byte or more
HasExtraBytes(name, data) ==
    \E p \in ValidPayloads(name) :
        Len(p) < Len(data) /\ SubSeq(data, 1, Len(p)) = p

\* C17: UserMessage::new rejects, for every recognized message name (ServerName
\* and Motd are not among the names of the inputs), a payload that is an
\* encoding of the message followed by at least one extra byte.
C17_AllConsumingDecoding ==
    (message # << >> /\ msg_name # "Bogus" /\ HasExtraBytes(msg_name, msg_data))
        => ~message[1].ok

\* the id is a decimal id64 of at least 76561197960265728
IsSteamId64(chars) ==
    /\ parse_u64(chars) # << >>
    /\ ~LessDigits(parse_u64(chars)[1], SteamId64Base)

\* STEAM_0:Y:Z with Y = account mod 2 and Z = account div 2
SteamIdOfAccount(account) ==
    "STEAM_0:" \o FormatDigits(<<LowBit(account)>>) \o ":" \o FormatDigits(HalfDigits(account))

\* C18: for a PlayerGlobalId that is a decimal id64 >= 76561197960265728 the
\* Steam id is STEAM_0:Y:Z with account = id64 - 76561197960265728,
\* Y = account mod 2 and Z = account div 2.
C18_SteamIdFormula ==
    (steam_id # << >> /\ IsSteamId64(global_id))
        => steam_id[1] =
               Some(SteamIdOfAccount(SubDigits(parse_u64(global_id)[1], SteamId64Base)))

\* C19: the projection yields a Steam id only for a decimal id64 of at least
\* 76561197960265728; for any other id, a decimal one below the base
\* included, it yields None, and the subtraction is not evaluated (it neither
\* panics nor wraps).
C19_SteamIdDomain ==
    (steam_id # << >> /\ ~IsSteamId64(global_id)) => steam_id[1] = None

\* C20: a step takes the detector from WaitingForNormal to MatchIsLive only
\* if, before it, the score component of every player is 0 and the current
\* score of every team (the latest TeamScore recorded for it) is 0.
C20_ScorelessWorldGuard ==
    [][(clan_match_detection.tag = "WaitingForNormal"
            /\ clan_match_detection'.tag = "MatchIsLive")
        => /\ \A i \in 1..Len(players) : players[i].stats[1] = 0
           /\ \A t \in Teams : get_team_score(team_scores, t) = 0]_vars

\* C21: once it is not zero, the viewdemo offset of current_time never
\* decreases: a SvcTime sets it only to a time greater than it, or when it is
\* zero, and no other event changes it.
C21_MonotonicClockClamp ==
    [][clock_time.viewdemo_offset # 0
           => clock_time'.viewdemo_offset >= clock_time.viewdemo_offset]_vars

\* the player Connected at the slot a wire index of 1 or more names, 0 for none
FoundAt(client_index) == find_player_by_client_index(players, client_index - 1)

\* the (kills, teamkills) a player has with a weapon
BreakdownOf(p, w) ==
    IF w \in DOMAIN p.weapon_breakdown THEN p.weapon_breakdown[w] ELSE <<0, 0>>

\* the number of kills in the current streak of a player
CurrentStreakLen(p) ==
    IF p.kill_streaks = << >> THEN 0 ELSE Len(p.kill_streaks[Len(p.kill_streaks)])

\* the state after the fold has processed e from the current state
After(e) == FoldStep(State(FALSE), e)

\* killer and victim have the same team, and it is a team
IsTeamkill(k, v) == players[k].team = players[v].team /\ players[k].team # NoTeam

\* C22: a DeathMsg between two found players is a teamkill for the kill-streak
\* and the weapon-breakdown update exactly if the two have the same team and
\* that team is not None: otherwise, two players without a team included, it
\* extends the killer's streak and counts as a kill, not as a teamkill.
C22_TeamkillDefinition ==
    (Folding /\ n_events < MaxTeamEvents) =>
        \A e \in TeamDeathEvents :
            e.killer_client_index # 0 =>
                LET k == FoundAt(e.killer_client_index)
                    v == FoundAt(e.victim_client_index)
                    old == IF k # 0 THEN BreakdownOf(players[k], e.weapon) ELSE <<0, 0>>
                IN  (k # 0 /\ v # 0 /\ k # v) =>
                        /\ BreakdownOf(After(e).players[k], e.weapon) =
                               IF IsTeamkill(k, v) THEN <<old[1], old[2] + 1>>
                               ELSE <<old[1] + 1, old[2]>>
                        /\ CurrentStreakLen(After(e).players[k]) =
                               IF IsTeamkill(k, v) THEN CurrentStreakLen(players[k])
                               ELSE CurrentStreakLen(players[k]) + 1

\* C23: a DeathMsg between two distinct connected players of the same team
\* (Allies or Axis) leaves the killer's kill_streaks unchanged, adds exactly
\* 1 to the teamkills component of the killer's weapon_breakdown[weapon] and
\* leaves its kills component unchanged, leaves the Active tail round's
\* allies_kills and axis_kills unchanged, and appends one empty KillStreak
\* to the victim
TailActive == rounds # << >> /\ rounds[Len(rounds)].kind = "Active"

OnRealTeam(k, v) == players[k].team = players[v].team /\ players[k].team \in {"Allies", "Axis"}

C23_TeamkillEffects ==
    (Folding /\ n_events < MaxTeamEvents) =>
        \A e \in TeamDeathEvents : e.killer_client_index # 0 =>
            LET k == FoundAt(e.killer_client_index)
                v == FoundAt(e.victim_client_index)
                old == IF k # 0 THEN BreakdownOf(players[k], e.weapon) ELSE <<0, 0>>
            IN  (k # 0 /\ v # 0 /\ k # v /\ OnRealTeam(k, v)) =>
                    /\ After(e).players[k].kill_streaks = players[k].kill_streaks
                    /\ BreakdownOf(After(e).players[k], e.weapon) = <<old[1], old[2] + 1>>
                    /\ TailActive => After(e).rounds = rounds
                    /\ After(e).players[v].kill_streaks
                           = Append(players[v].kill_streaks, << >>)

\* two connected team mates, one of whom has killed the other under an
\* Active tail round that counted nothing
C23_TeamkillRecorded ==
    /\ Folding /\ TailActive
    /\ rounds[Len(rounds)].allies_kills = 0 /\ rounds[Len(rounds)].axis_kills = 0
    /\ \E k, v \in DOMAIN players :
           /\ k # v /\ OnRealTeam(k, v)
           /\ players[k].connection_status.connected
           /\ players[v].connection_status.connected
           /\ BreakdownOf(players[k], "Garand") = <<0, 1>>
           /\ players[k].kill_streaks = << >>
           /\ players[v].kill_streaks = << << >> >>

\* C24: on a DeathMsg processed while the tail round is Active, unless killer
\* and victim are both found with the same team other than None (nothing is
\* counted), exactly one counter of the tail round grows by 1: allies_kills
\* if the killer is on Allies, otherwise axis_kills; this includes a victim
\* index at which no player is connected
CountedRounds(k) ==
    IF k # 0 /\ players[k].team = "Allies"
    THEN [rounds EXCEPT ![Len(rounds)].allies_kills = @ + 1]
    ELSE [rounds EXCEPT ![Len(rounds)].axis_kills = @ + 1]

C24_RoundKillCounting ==
    (Folding /\ n_events < MaxTeamEvents /\ TailActive) =>
        \A e \in TeamDeathEvents :
            LET k == FoundAt(e.killer_client_index)
                v == FoundAt(e.victim_client_index)
            IN  After(e).rounds =
                    IF k # 0 /\ v # 0 /\ IsTeamkill(k, v) THEN rounds ELSE CountedRounds(k)

\* C25: an SvcUpdateUserInfo whose userinfo yields no key/value pair never
\* appends a Player and never sets a player to Connected; the player
\* Connected in that slot, if any, becomes Disconnected, and with no
\* connected player in the slot the state is unchanged
EmptyUserInfoEvents == {e \in TeamConnectEvents : DOMAIN ParseFields(e.user_info) = {}}

C25_EmptyUserInfoDisconnectsOnly ==
    (Folding /\ n_events < MaxTeamEvents) =>
        \A e \in EmptyUserInfoEvents :
            LET occ == find_player_by_client_index(players, e.index)
            IN  After(e).players =
                    IF occ # 0
                    THEN [players EXCEPT ![occ].connection_status = Disconnected]
                    ELSE players

\* C26: a non-empty, non-HLTV SvcUpdateUserInfo for an existing player that
\* has no team field, or a team value that is not a recognized team name,
\* leaves the player's team as it was before the update
TeamlessUserInfoEvents ==
    {e \in TeamConnectEvents :
        LET fields == ParseFields(e.user_info)
        IN  /\ DOMAIN fields # {}
            /\ ~("*hltv" \in DOMAIN fields /\ fields["*hltv"] = "1")
            /\ TeamOf(fields) = NoTeam}

C26_TeamKeptWithoutTeamField ==
    (Folding /\ n_events < MaxTeamEvents) =>
        \A e \in TeamlessUserInfoEvents :
            LET me == find_player_by_id(players,
                          PlayerGlobalIdOf(ParseFields(e.user_info), e.id, "v4-a"))
            IN  me # 0 => After(e).players[me].team = players[me].team

\* C27: an SvcUpdateUserInfo whose userinfo has *hltv equal to "1" leaves the
\* whole AnalyzerState unchanged: no player is created and no player's
\* connection status, name or team changes, also when the slot is held by a
\* connected player
HltvEvents ==
    {e \in SvcUpdateUserInfoEvents :
        LET fields == ParseFields(e.user_info)
        IN  "*hltv" \in DOMAIN fields /\ fields["*hltv"] = "1"}

C27_HltvIgnored ==
    (Folding /\ n_events < MaxUserInfoEvents) =>
        \A e \in HltvEvents : After(e) = State(FALSE)

\* every slot is held by a connected player when an HLTV update can arrive
C27_HltvOnOccupiedSlot ==
    /\ Folding /\ n_events < MaxUserInfoEvents
    /\ HltvEvents # {}
    /\ \A i \in Slots : find_player_by_client_index(players, i) # 0

\* C28: when SvcUpdateUserInfo(index = i) identifies player Y while another
\* player X is Connected{i}, afterwards X is Disconnected, Y is Connected{i},
\* both are in players and X's name, team, class, stats, streaks and
\* breakdown are unchanged; and when Y was Connected{j} with j # i, afterwards
\* no player is Connected{j}
IdentifyingEvents ==
    {e \in SvcUpdateUserInfoEvents :
        LET fields == ParseFields(e.user_info)
        IN  DOMAIN fields # {} /\ ~("*hltv" \in DOMAIN fields /\ fields["*hltv"] = "1")}

IdentifiedBy(e) == PlayerGlobalIdOf(ParseFields(e.user_info), e.id, "v4-a")

\* e reuses the slot of another connected player
ReusesSlot(e) ==
    LET x == find_player_by_client_index(players, e.index)
    IN  x # 0 /\ players[x].id # IdentifiedBy(e)

\* e moves a player that is connected in another slot
MovesSlot(e) ==
    LET y == find_player_by_id(players, IdentifiedBy(e))
    IN  /\ y # 0
        /\ players[y].connection_status.connected
        /\ players[y].connection_status.client_id # e.index

C28_SlotReuseAndMove ==
    (Folding /\ n_events < MaxEvents) =>
        \A e \in IdentifyingEvents : ReusesSlot(e) =>
            LET x == find_player_by_client_index(players, e.index)
                y == find_player_by_id(players, IdentifiedBy(e))
                ps == After(e).players
                y1 == find_player_by_id(ps, IdentifiedBy(e))
            IN  /\ Len(ps) >= Len(players)
                /\ ps[x] = [players[x] EXCEPT !.connection_status = Disconnected]
                /\ y1 # 0 /\ y1 # x
                /\ ps[y1].connection_status = Connected(e.index)
                /\ MovesSlot(e) =>
                       find_player_by_client_index(ps,
                           players[y].connection_status.client_id) = 0

\* an update can arrive that takes the slot of another connected player and
\* moves its own player out of the slot it is connected in
C28_ReuseByPlayerConnectedElsewhere ==
    /\ Folding /\ n_events < MaxEvents
    /\ \E e \in IdentifyingEvents : ReusesSlot(e) /\ MovesSlot(e)

\* C29: an ObjScore for client index k changes only the score component of
\* the player Connected at slot k-1, and a Frags only that player's kills
\* component; the two other components of that player's stats, every other
\* field of that player and every other player are unchanged, and with no
\* player connected at k-1 the state is unchanged
PartialScoreEvents == ObjScoreEvents \cup FragsEvents

\* the state a completed step on e must give
PartialOverwrite(s, e) ==
    LET p == find_player_by_client_index(s.players, e.client_index - 1)
    IN  IF p = 0 THEN s
        ELSE IF e.type = "ObjScore"
        THEN [s EXCEPT !.players[p].stats =
                 <<e.score, s.players[p].stats[2], s.players[p].stats[3]>>]
        ELSE [s EXCEPT !.players[p].stats =
                 <<s.players[p].stats[1], e.frags, s.players[p].stats[3]>>]

SuicideEvents == {e \in TeamDeathEvents : e.killer_client_index = 0}

C30_SuicideCreditsNobody ==
    (Folding /\ n_events < MaxTeamEvents) =>
        \A e \in SuicideEvents : \A checks \in Builds(e) :
            LET s1 == FoldStep(State(checks), e)
                v == FoundAt(e.victim_client_index)
            IN  /\ ~s1.panicked
                /\ s1.rounds = rounds
                /\ \A i \in 1..Len(players) :
                       /\ s1.players[i].weapon_breakdown = players[i].weapon_breakdown
                       /\ s1.players[i].kill_streaks =
                              IF i = v THEN Append(players[i].kill_streaks, << >>)
                              ELSE players[i].kill_streaks


\* C31: when AlliesWin (AxisWin) is processed with the tail
\* Active{allies_kills: a, axis_kills: x, start_time: s}, the tail is replaced
\* by Completed{start_time: s, end_time: current_time, winner_stats:
\* Some((Allies, a))} (Some((Axis, x))); the length of rounds and all earlier
\* elements are unchanged
WonRound(win) ==
    LET tail == rounds[Len(rounds)]
    IN  Completed(tail.start_time, current_time,
                  IF win = "AlliesWin" THEN <<"Allies", tail.allies_kills>>
                  ELSE <<"Axis", tail.axis_kills>>)

C31_WinTransition ==
    (Folding /\ n_events < MaxKillEvents /\ TailActive) =>
        \A e \in MatchRoundEvents : e.round_state \in {"AlliesWin", "AxisWin"} =>
            After(e).rounds = [rounds EXCEPT ![Len(rounds)] = WonRound(e.round_state)]

\* a round won by a team that had made a kill in it
C31_WonWithKill ==
    /\ rounds # << >>
    /\ rounds[Len(rounds)].kind = "Completed"
    /\ rounds[Len(rounds)].winner_stats # NoStats
    /\ rounds[Len(rounds)].winner_stats[2] = 1

\* C32: after a DeathMsg whose victim index resolves to a connected player v
\* other than the killer, the last element of v.kill_streaks is an empty
\* KillStreak and every kill entry v had before is still in an earlier
\* streak; after RoundState::Reset the last streak of every player is empty
C32_DeathEndsStreak ==
    (Folding /\ n_events < MaxKillEvents) =>
        /\ \A e \in MatchDeathEvents : \A checks \in Builds(e) :
               LET s1 == FoldStep(State(checks), e)
                   v == FoundAt(e.victim_client_index)
               IN  (~s1.panicked /\ v # 0
                       /\ e.killer_client_index # e.victim_client_index) =>
                       s1.players[v].kill_streaks
                           = Append(players[v].kill_streaks, << >>)
        /\ \A i \in 1..Len(players) :
               After(ResetEvent).players[i].kill_streaks
                   = Append(players[i].kill_streaks, << >>)

\* a player who made a kill and was then killed by a player whose streak
\* goes on
C32_KillerKilled ==
    \E i, j \in 1..Len(players) :
        /\ Len(players[i].kill_streaks) = 2
        /\ players[i].kill_streaks[1] # << >>
        /\ players[i].kill_streaks[2] = << >>
        /\ CurrentStreakLen(players[j]) = 1

\* C33: once clan_match_detection is MatchIsLive, every event other than
\* ClanTimer (further Reset and Normal round states, SvcTime and Finalization
\* included) leaves it MatchIsLive and clears no rounds, team scores, kill
\* streaks or weapon breakdowns; the state is cleared again only after a
\* ClanTimer followed by an accepted Reset and then a Normal
IsLive == clan_match_detection.tag = "MatchIsLive"

LiveKept(e) ==
    \A checks \in Builds(e) :
        LET x == UpdatesBeforeClan(State(checks), e)
        IN  ~x.panicked => ClanStep(x, e) = x

C33_LiveLeftOnlyByClanTimer ==
    /\ []((Folding /\ IsLive) => LiveKept([type |-> "Finalization"]))
    /\ []((Folding /\ IsLive /\ n_events < MaxLiveEvents) =>
              \A e \in Events \ {ClanTimerEvent} : LiveKept(e))
    /\ [][(IsLive /\ clan_match_detection' # MatchIsLive) =>
              /\ clan_match_detection' = WaitingForReset
              /\ UNCHANGED <<rounds, team_scores, players, current_time>>]_vars
    /\ [][(clan_match_detection'.tag = "WaitingForNormal"
              /\ clan_match_detection.tag # "WaitingForNormal") =>
              clan_match_detection.tag = "WaitingForReset"]_vars
    /\ [][GoesLive => clan_match_detection.tag = "WaitingForNormal"]_vars
    /\ [][(Folding /\ pc' = "fold" /\ IsLive) => NothingCleared]_vars

\* the match is live, a kill was recorded in it and a further Reset has
\* added a round to the one the go-live left
C33_ResetWhileLive ==
    /\ IsLive
    /\ Len(rounds) = 2
    /\ \E i \in 1..Len(players) : BreakdownTotal(players[i]) = 1

\* C34: in every reachable state in which the detector is
\* WaitingForNormal{reset_time}, current_time >= reset_time, so the Duration
\* subtraction current_time - reset_time of the timeout check never
\* underflows and never aborts, also when an SvcTime carries a positive time
\* lower than the time of the preceding Reset
SubtractionDefined(x) ==
    x.clan_match_detection.tag = "WaitingForNormal" =>
        x.current_time >= x.clan_match_detection.reset_time

C34_TimeoutSubtractionDefined ==
    /\ SubtractionDefined(State(FALSE))
    /\ (Folding /\ n_events < MaxRoundEvents) =>
           \A e \in SvcTimeEvents \cup {OtherEvent} :
               /\ SubtractionDefined(UpdatesBeforeClan(State(FALSE), e))
               /\ ~After(e).panicked

\* C35: whenever the detector is WaitingForNormal{r}, r is current_time as of
\* the most recent RoundState::Reset processed, so a go-live round starts at
\* the Reset right before the accepted Normal, also when two Resets arrive
\* within max_normal_duration of each other
C35_ResetTimeTracksLatestReset ==
    (Folding /\ n_events < MaxRoundEvents) =>
        LET s1 == After(ResetEvent)
        IN  s1.clan_match_detection.tag = "WaitingForNormal" =>
                s1.clan_match_detection.reset_time = current_time

\* C36: after any sequence of events, for every player the number of kill
\* entries over all of the player's kill_streaks equals the sum of the kills
\* components (teamkills left out) over the player's weapon_breakdown
RECURSIVE StreakEntries(_, _)
StreakEntries(ks, n) == IF n = 0 THEN 0 ELSE Len(ks[n]) + StreakEntries(ks, n - 1)

RECURSIVE KillsOver(_, _)
KillsOver(wb, S) ==
    IF S = {} THEN 0
    ELSE LET w == CHOOSE y \in S : TRUE IN wb[w][1] + KillsOver(wb, S \ {w})

TeamkillsOf(p) == BreakdownTotal(p) - KillsOver(p.weapon_breakdown, DOMAIN p.weapon_breakdown)

C36_StreaksAgreeWithBreakdown ==
    \A i \in 1..Len(players) :
        StreakEntries(players[i].kill_streaks, Len(players[i].kill_streaks))
            = KillsOver(players[i].weapon_breakdown, DOMAIN players[i].weapon_breakdown)

\* a player with one kill and one teamkill
C36_KillAndTeamkill ==
    \E i \in 1..Len(players) :
        /\ KillsOver(players[i].weapon_breakdown, DOMAIN players[i].weapon_breakdown) = 1
        /\ TeamkillsOf(players[i]) = 1

\* C37: for every event sequence that ends with Finalization and does not
\* abort, the final rounds list holds no Round::Active element, also when a
\* Reset arrived while the round before it was still Active
C37_NoActiveRoundAfterFinalization ==
    pc = "done" => \A i \in 1..Len(rounds) : rounds[i].kind # "Active"

\* C38: PClass, PTeam, ScoreShort, ObjScore, Frags and DeathMsg events never
\* change the team, class, stats or weapon_breakdown of a player whose
\* connection_status is Disconnected, whatever client index they carry
IndexedEvents ==
    PClassEvents \cup PTeamEvents \cup ScoreShortEvents \cup ObjScoreEvents
    \cup FragsEvents \cup DeathMsgEvents

Frozen(p, q) ==
    /\ q.team = p.team
    /\ q.class = p.class
    /\ q.stats = p.stats
    /\ q.weapon_breakdown = p.weapon_breakdown

C38_DisconnectedFrozen ==
    (Folding /\ n_events < MaxEvents) =>
        \A e \in IndexedEvents : \A checks \in Builds(e) :
            LET s1 == FoldStep(State(checks), e)
            IN  ~s1.panicked =>
                    \A i \in 1..Len(players) :
                        ~players[i].connection_status.connected =>
                            Frozen(players[i], s1.players[i])

\* a disconnected player with a team beside a connected player
C38_DisconnectedBesideConnected ==
    /\ Folding /\ n_events < MaxEvents
    /\ \E i, j \in 1..Len(players) :
           /\ ~players[i].connection_status.connected
           /\ players[i].team # NoTeam
           /\ players[j].connection_status.connected

\* C39: after any sequence of DeathMsg, PStatus and Finalization events no
\* player's mortality history has two consecutive entries with the same
\* Mortality value, and after Finalization no player is_alive: every Alive
\* entry is followed by a Dead entry, and lifespans has one duration per
\* Alive entry
Alternates(changes) ==
    \A i \in 1..(Len(changes) - 1) : changes[i][2] # changes[i + 1][2]

AliveEntries(changes) == {i \in 1..Len(changes) : changes[i][2] = "Alive"}

C39_MortalityAlternates ==
    \A i \in 1..Len(players) :
        LET changes == mortality_changes(mortality, players[i].id)
        IN  /\ Alternates(changes)
            /\ mortality_pc = "done" =>
                   /\ ~is_alive(changes)
                   /\ \A a \in AliveEntries(changes) :
                          a < Len(changes) /\ changes[a + 1][2] = "Dead"
                   /\ ~lifespans(changes).panicked
                   /\ Len(lifespans(changes).lifespans) = Cardinality(AliveEntries(changes))

\* at the end of the demo one player has lived twice, the second time until
\* the Finalization, and another has only died
C39_LivedTwice ==
    /\ mortality_pc = "done"
    /\ \E k, l \in DOMAIN mortality :
           /\ Len(mortality[k]) = 4 /\ mortality[k][1][2] = "Alive"
           /\ Len(mortality[l]) = 1 /\ mortality[l][1][2] = "Dead"

\* C40: for all pairs of players a, b over the team values None, Allies, Axis
\* and Spectators and bounded stats, the comparator of the Finalization sort
\* is antisymmetric: compare(a, b) is Less exactly when compare(b, a) is
\* Greater, and Equal exactly when compare(b, a) is Equal
C40_ComparatorAntisymmetric ==
    compare_result # << >> =>
        /\ (compare_result[1] = "Less") <=> (compare_result[2] = "Greater")
        /\ (compare_result[1] = "Equal") <=> (compare_result[2] = "Equal")

=============================================================================
